---- MODULE Spec2Model ----
(***************************************************************************)
(* cloud-build-watcher: the WatchBuilds Cloud Function.                    *)
(*                                                                         *)
(* Go strings are modelled as sequences of one-character strings, so that  *)
(* trimming, splitting, integer parsing and glob matching are computed     *)
(* character by character as the code computes them.                       *)
(***************************************************************************)
EXTENDS Integers, Sequences, FiniteSets, TLC

VARIABLES
    env,        \* the process environment: variable name -> value ("" when unset)
    pc,         \* position inside WatchBuilds
    cfg,        \* the *Config of loadConfig: <<>> is nil, <<c>> points to c
    build,      \* the decoded cbpb.Build: <<>> before decoding, <<b>> after
    emailErr,   \* what checkEmail returned (nil = send), <<"-">> while not run
    badgeErr,   \* what checkBadge returned (nil = write), <<"-">> while not run
    ret,        \* what WatchBuilds returned, <<"-">> while running
    logs,       \* the log lines printed, in order (prefix of each line)
    sent,       \* the messages handed to smtp.SendMail that were accepted
    objects,    \* the Cloud Storage objects written and closed, in order
    calls,      \* the functions the program has called so far, in order
    flags,      \* the input of a program: the command line of test_badge, the
                \* case of TestFormatDuration, the build and the field of a
                \* buildTag lookup, <<>> for a run of WatchBuilds
    files,      \* test_badge: the output files, <<>> absent, <<lines>> present
    exit        \* test_badge: <<>> while running, <<n>> after exiting with status n

vars == <<env, pc, cfg, build, emailErr, badgeErr, ret, logs, sent, objects, calls,
         flags, files, exit>>

-----------------------------------------------------------------------------
(* Strings *)

Range(s) == {s[i] : i \in 1..Len(s)}

\* A nil error is the empty message; an error is a non-empty sequence of
\* message fragments (format literals, setting names, characters of values).
nil == <<>>

\* The pending marker of a result that has not been produced yet.
NotRun == <<"-">>

Quote(s) == <<"\"">> \o s \o <<"\"">>

\* The vertical tab U+000B, as one character of a string.
sVT == "\\v"

\* unicode.IsSpace on Latin-1, as strings.TrimSpace uses it: '\t', '\n', '\v',
\* '\f', '\r', ' ', U+0085 (NEL), U+00A0 (NBSP).
IsSpace(c) == c \in {"\t", "\n", sVT, "\f", "\r", " ", "U+0085", "U+00A0"}

RECURSIVE TrimLeft(_)
TrimLeft(s) == IF s # <<>> /\ IsSpace(Head(s)) THEN TrimLeft(Tail(s)) ELSE s

RECURSIVE TrimRight(_)
TrimRight(s) ==
    IF s # <<>> /\ IsSpace(s[Len(s)]) THEN TrimRight(SubSeq(s, 1, Len(s) - 1)) ELSE s

\* strings.TrimSpace
TrimSpace(s) == TrimRight(TrimLeft(s))

Digits == <<"0", "1", "2", "3", "4", "5", "6", "7", "8", "9">>

IsDigit(c) == c \in Range(Digits)

DigitVal(c) == (CHOOSE i \in 1..Len(Digits) : Digits[i] = c) - 1

RECURSIVE DecVal(_)
DecVal(ds) ==
    IF ds = <<>> THEN 0
    ELSE 10 * DecVal(SubSeq(ds, 1, Len(ds) - 1)) + DigitVal(ds[Len(ds)])

AtoiError(s) == <<"strconv.Atoi: parsing ">> \o Quote(s) \o <<": invalid syntax">>

\* strconv.Atoi: an optional sign, then one or more decimal digits. (Values
\* stay far below the 64-bit range for the string lengths of the model.)
Atoi(s) ==
    LET digits == IF s # <<>> /\ s[1] \in {"-", "+"} THEN Tail(s) ELSE s
    IN  IF digits = <<>> \/ \E i \in 1..Len(digits) : ~IsDigit(digits[i])
        THEN [v |-> 0, err |-> AtoiError(s)]
        ELSE [v |-> IF s[1] = "-" THEN -DecVal(digits) ELSE DecVal(digits),
              err |-> nil]

-----------------------------------------------------------------------------
(* regexp.Regexp.Split for listRegexp = `\s*,\s*` *)

\* The regexp class \s, which is [\t\n\f\r ].
IsRegexpSpace(c) == c \in {"\t", "\n", "\f", "\r", " "}

RECURSIVE SkipSpace(_, _)
SkipSpace(s, i) ==
    IF i <= Len(s) /\ IsRegexpSpace(s[i]) THEN SkipSpace(s, i + 1) ELSE i

\* listRegexp matches at position i: spaces, then a comma.
listRegexpMatchAt(s, i) ==
    LET j == SkipSpace(s, i) IN j <= Len(s) /\ s[j] = ","

\* The position just after the (greedy) match that starts at i.
listRegexpMatchEnd(s, i) == SkipSpace(s, SkipSpace(s, i) + 1)

RECURSIVE SplitFrom(_, _, _)
SplitFrom(s, beg, i) ==
    IF i > Len(s) THEN <<SubSeq(s, beg, Len(s))>>
    ELSE IF listRegexpMatchAt(s, i)
         THEN <<SubSeq(s, beg, i - 1)>>
              \o SplitFrom(s, listRegexpMatchEnd(s, i), listRegexpMatchEnd(s, i))
         ELSE SplitFrom(s, beg, i + 1)

\* listRegexp.Split(s, -1): the pieces of s between the leftmost, non-overlapping
\* matches, the empty pieces included.
listRegexpSplit(s) == SplitFrom(s, 1, 1)

-----------------------------------------------------------------------------
(* path/filepath.Match, as the Go standard library computes it (non-Windows) *)

Separator == "/"

\* The characters of the model in ASCII order: Ord compares range bounds.
Ascii ==
    <<"\t", " ", "\"", "*", "+", ",", "-", ".", "/",
      "0", "1", "2", "3", "4", "5", "6", "7", "8", "9",
      "<", ">", "?", "@",
      "A", "B", "C", "D", "E", "F", "G", "H", "I", "J", "K", "L", "M",
      "N", "O", "P", "Q", "R", "S", "T", "U", "V", "W", "X", "Y", "Z",
      "[", "\\", "]", "^", "_",
      "a", "b", "c", "d", "e", "f", "g", "h", "i", "j", "k", "l", "m",
      "n", "o", "p", "q", "r", "s", "t", "u", "v", "w", "x", "y", "z">>

Ord(c) == CHOOSE i \in 1..Len(Ascii) : Ascii[i] = c

RECURSIVE DropStars(_)
DropStars(p) == IF p # <<>> /\ Head(p) = "*" THEN DropStars(Tail(p)) ELSE p

RECURSIVE ScanEnd(_, _, _)
ScanEnd(p, i, inrange) ==
    IF i > Len(p) THEN i
    ELSE IF p[i] = "\\" THEN ScanEnd(p, IF i + 1 <= Len(p) THEN i + 2 ELSE i + 1, inrange)
    ELSE IF p[i] = "[" THEN ScanEnd(p, i + 1, TRUE)
    ELSE IF p[i] = "]" THEN ScanEnd(p, i + 1, FALSE)
    ELSE IF p[i] = "*" /\ ~inrange THEN i
    ELSE ScanEnd(p, i + 1, inrange)

\* scanChunk: the leading stars, the chunk up to the next star outside a
\* character class, and the rest of the pattern.
scanChunk(pattern) ==
    LET p == DropStars(pattern)
        e == ScanEnd(p, 1, FALSE)
    IN  [star  |-> pattern # <<>> /\ Head(pattern) = "*",
         chunk |-> SubSeq(p, 1, e - 1),
         rest  |-> SubSeq(p, e, Len(p))]

\* getEsc: one (possibly escaped) character of a character class.
getEsc(chunk) ==
    IF chunk = <<>> \/ Head(chunk) \in {"-", "]"}
    THEN [err |-> TRUE, r |-> "", nchunk |-> <<>>]
    ELSE LET c == IF Head(chunk) = "\\" THEN Tail(chunk) ELSE chunk
         IN  IF c = <<>>
             THEN [err |-> TRUE, r |-> "", nchunk |-> <<>>]
             ELSE [err |-> Tail(c) = <<>>, r |-> Head(c), nchunk |-> Tail(c)]

RECURSIVE classRanges(_, _, _, _, _)
\* The "parse all ranges" loop of matchChunk; r is the character of the name
\* being matched, hasR is false once the match has failed.
classRanges(chunk, hasR, r, nrange, match) ==
    IF chunk # <<>> /\ Head(chunk) = "]" /\ nrange > 0
    THEN [err |-> FALSE, chunk |-> Tail(chunk), match |-> match]
    ELSE LET lo == getEsc(chunk)
         IN  IF lo.err
             THEN [err |-> TRUE, chunk |-> <<>>, match |-> FALSE]
             ELSE LET hi == IF Head(lo.nchunk) = "-" THEN getEsc(Tail(lo.nchunk)) ELSE lo
                  IN  IF hi.err
                      THEN [err |-> TRUE, chunk |-> <<>>, match |-> FALSE]
                      ELSE classRanges(hi.nchunk, hasR, r, nrange + 1,
                               match \/ (hasR /\ Ord(lo.r) <= Ord(r) /\ Ord(r) <= Ord(hi.r)))

ErrBadPattern == [rest |-> <<>>, ok |-> FALSE, err |-> TRUE]

RECURSIVE matchChunkLoop(_, _, _)
matchChunkLoop(chunk, s, failed0) ==
    IF chunk = <<>>
    THEN IF failed0
         THEN [rest |-> <<>>, ok |-> FALSE, err |-> FALSE]
         ELSE [rest |-> s, ok |-> TRUE, err |-> FALSE]
    ELSE
    LET failed == failed0 \/ s = <<>>
        rests  == IF failed THEN s ELSE Tail(s)
    IN  IF Head(chunk) = "["
        THEN LET c1      == Tail(chunk)
                 negated == c1 # <<>> /\ Head(c1) = "^"
                 c2      == IF negated THEN Tail(c1) ELSE c1
                 cls     == classRanges(c2, ~failed, IF failed THEN "" ELSE Head(s), 0, FALSE)
             IN  IF cls.err THEN ErrBadPattern
                 ELSE matchChunkLoop(cls.chunk, rests, failed \/ cls.match = negated)
        ELSE IF Head(chunk) = "?"
        THEN matchChunkLoop(Tail(chunk), rests, failed \/ Head(s) = Separator)
        ELSE LET lit == IF Head(chunk) = "\\" THEN Tail(chunk) ELSE chunk
             IN  IF lit = <<>> THEN ErrBadPattern
                 ELSE matchChunkLoop(Tail(lit), rests, failed \/ Head(lit) # Head(s))

\* matchChunk: does chunk match a prefix of s; after a mismatch the rest of
\* the chunk is still checked for being well formed.
matchChunk(chunk, s) == matchChunkLoop(chunk, s, FALSE)

RECURSIVE restErr(_)
\* "check that the remainder of the pattern is syntactically valid"
restErr(pattern) ==
    IF pattern = <<>> THEN FALSE
    ELSE LET sc == scanChunk(pattern)
         IN  matchChunk(sc.chunk, <<>>).err \/ restErr(sc.rest)

RECURSIVE Match(_, _)
RECURSIVE starSkip(_, _, _, _)

\* "Look for match skipping i+1 bytes. Cannot skip /."
starSkip(chunk, rest, name, i) ==
    IF i > Len(name) \/ name[i] = Separator
    THEN [m |-> FALSE, err |-> restErr(rest)]
    ELSE LET mc == matchChunk(chunk, SubSeq(name, i + 1, Len(name)))
         IN  IF mc.ok
             THEN IF rest = <<>> /\ mc.rest # <<>>
                  THEN starSkip(chunk, rest, name, i + 1)
                  ELSE Match(rest, mc.rest)
             ELSE IF mc.err THEN [m |-> FALSE, err |-> TRUE]
             ELSE starSkip(chunk, rest, name, i + 1)

\* filepath.Match(pattern, name): [m: matched, err: ErrBadPattern].
Match(pattern, name) ==
    IF pattern = <<>> THEN [m |-> name = <<>>, err |-> FALSE]
    ELSE
    LET sc == scanChunk(pattern)
    IN  IF sc.star /\ sc.chunk = <<>>
        THEN [m |-> Separator \notin Range(name), err |-> FALSE]
        ELSE LET mc == matchChunk(sc.chunk, name)
             IN  IF mc.ok /\ (mc.rest = <<>> \/ sc.rest # <<>>)
                 THEN Match(sc.rest, mc.rest)
                 ELSE IF mc.err THEN [m |-> FALSE, err |-> TRUE]
                 ELSE IF sc.star THEN starSkip(sc.chunk, sc.rest, name, 1)
                 ELSE [m |-> FALSE, err |-> restErr(sc.rest)]

-----------------------------------------------------------------------------
(* cbpb.Build_Status, net/mail and time.LoadLocation as the code uses them *)

sSUCCESS        == <<"S", "U", "C", "C", "E", "S", "S">>
sFAILURE        == <<"F", "A", "I", "L", "U", "R", "E">>
sINTERNAL_ERROR == <<"I", "N", "T", "E", "R", "N", "A", "L", "_", "E", "R", "R", "O", "R">>
sTIMEOUT        == <<"T", "I", "M", "E", "O", "U", "T">>
sCANCELLED      == <<"C", "A", "N", "C", "E", "L", "L", "E", "D">>

\* cbpb.Build_Status_name: the enum numbers of cloudbuild.v1 Build.Status.
Build_Status_name ==
    LET sSTATUS_UNKNOWN == <<"S", "T", "A", "T", "U", "S", "_", "U", "N", "K", "N", "O", "W", "N">>
        sPENDING        == <<"P", "E", "N", "D", "I", "N", "G">>
        sQUEUED         == <<"Q", "U", "E", "U", "E", "D">>
        sWORKING        == <<"W", "O", "R", "K", "I", "N", "G">>
        sEXPIRED        == <<"E", "X", "P", "I", "R", "E", "D">>
    IN  (0 :> sSTATUS_UNKNOWN) @@ (10 :> sPENDING) @@ (1 :> sQUEUED) @@ (2 :> sWORKING)
        @@ (3 :> sSUCCESS) @@ (4 :> sFAILURE) @@ (5 :> sINTERNAL_ERROR) @@ (6 :> sTIMEOUT)
        @@ (7 :> sCANCELLED) @@ (9 :> sEXPIRED)

Build_SUCCESS == CHOOSE n \in DOMAIN Build_Status_name : Build_Status_name[n] = sSUCCESS
Build_FAILURE == CHOOSE n \in DOMAIN Build_Status_name : Build_Status_name[n] = sFAILURE
Build_INTERNAL_ERROR ==
    CHOOSE n \in DOMAIN Build_Status_name : Build_Status_name[n] = sINTERNAL_ERROR
Build_TIMEOUT == CHOOSE n \in DOMAIN Build_Status_name : Build_Status_name[n] = sTIMEOUT

\* The keys of cbpb.Build_Status_value: the names of the enum.
Build_Status_value == {Build_Status_name[n] : n \in DOMAIN Build_Status_name}

RECURSIVE Itoa(_)
Itoa(n) == IF n < 10 THEN <<Digits[n + 1]>> ELSE Itoa(n \div 10) \o <<Digits[(n % 10) + 1]>>

\* fmt's %d
FormatInt(n) == IF n < 0 THEN <<"-">> \o Itoa(-n) ELSE Itoa(n)

\* Build_Status.String(): the name of the number, or the number in decimal
\* when the enum does not define it.
StatusString(n) ==
    IF n \in DOMAIN Build_Status_name THEN Build_Status_name[n] ELSE Itoa(n)

\* Characters that cannot appear in the local part or the domain of the
\* addresses of the model.
AddrSpecials == {" ", "\t", "<", ">", "@", ",", "\""}

IsAddrSpec(s) ==
    \E k \in 2..(Len(s) - 1) :
        /\ s[k] = "@"
        /\ \A i \in 1..Len(s) : i # k => s[i] \notin AddrSpecials

\* mail.ParseAddress, for the two shapes "local@domain" and
\* "Display Name <local@domain>"; anything else is a parse error.
ParseAddress(v) ==
    IF IsAddrSpec(v)
    THEN [ok |-> TRUE, addr |-> [Name |-> <<>>, Address |-> v], err |-> nil]
    ELSE IF /\ v # <<>>
            /\ v[Len(v)] = ">"
            /\ \E k \in 1..Len(v) :
                  /\ v[k] = "<"
                  /\ IsAddrSpec(SubSeq(v, k + 1, Len(v) - 1))
                  /\ \A i \in 1..(k - 1) : v[i] \notin (AddrSpecials \ {" ", "\t"})
    THEN LET k == CHOOSE k \in 1..Len(v) : v[k] = "<"
         IN  [ok |-> TRUE,
              addr |-> [Name |-> TrimSpace(SubSeq(v, 1, k - 1)),
                        Address |-> SubSeq(v, k + 1, Len(v) - 1)],
              err |-> nil]
    ELSE [ok |-> FALSE, addr |-> [Name |-> <<>>, Address |-> <<>>],
          err |-> IF v = <<>> THEN <<"mail: no address">>
                  ELSE <<"mail: missing '@' or angle-addr">>]

RECURSIVE SplitComma(_, _)
\* The pieces of s between commas (no comma occurs inside an address of the model).
SplitComma(s, acc) ==
    IF s = <<>> THEN <<acc>>
    ELSE IF Head(s) = "," THEN <<acc>> \o SplitComma(Tail(s), <<>>)
    ELSE SplitComma(Tail(s), Append(acc, Head(s)))

RECURSIVE SelectNonEmpty(_)
SelectNonEmpty(ss) ==
    IF ss = <<>> THEN <<>>
    ELSE IF Head(ss) = <<>> THEN SelectNonEmpty(Tail(ss))
    ELSE <<Head(ss)>> \o SelectNonEmpty(Tail(ss))

\* mail.ParseAddressList: comma-separated addresses, empty entries skipped
\* (obs-addr-list), at least one address required.
ParseAddressList(v) ==
    LET pieces == SplitComma(v, <<>>)
        items  == SelectNonEmpty([i \in 1..Len(pieces) |-> TrimSpace(pieces[i])])
        parsed == [i \in 1..Len(items) |-> ParseAddress(items[i])]
    IN  IF items = <<>>
        THEN [ok |-> FALSE, list |-> <<>>, err |-> <<"mail: no address">>]
        ELSE IF \E i \in 1..Len(parsed) : ~parsed[i].ok
        THEN [ok |-> FALSE, list |-> <<>>,
              err |-> parsed[CHOOSE i \in 1..Len(parsed) :
                                /\ ~parsed[i].ok
                                /\ \A j \in 1..(i - 1) : parsed[j].ok].err]
        ELSE [ok |-> TRUE, list |-> [i \in 1..Len(parsed) |-> parsed[i].addr], err |-> nil]

sEtcUTC == <<"E", "t", "c", "/", "U", "T", "C">>
sUTC    == <<"U", "T", "C">>
sNewYork ==
    <<"A", "m", "e", "r", "i", "c", "a", "/", "N", "e", "w", "_", "Y", "o", "r", "k">>

\* The zones of the TZ database that the model knows.
KnownZones == {sEtcUTC, sUTC, sNewYork}

\* time.LoadLocation
LoadLocation(name) ==
    IF name \in KnownZones
    THEN [ok |-> TRUE, loc |-> <<name>>, err |-> nil]
    ELSE [ok |-> FALSE, loc |-> <<>>, err |-> <<"unknown time zone ">> \o name]

-----------------------------------------------------------------------------
(* package time and timestamppb as email.go and badge.go use them *)

\* time.Second: instants and durations are counted in milliseconds, the
\* resolution of the model (Go counts nanoseconds in an int64).
Second == 1000

Minute == 60 * Second

Hour == 60 * Minute

Day == 24 * Hour

\* Go's integer division, which truncates toward zero.
GoDiv(a, b) == IF a >= 0 THEN a \div b ELSE -((-a) \div b)

\* Go's %: the remainder has the sign of the dividend.
GoMod(a, b) == a - b * GoDiv(a, b)

\* timestamppb.Timestamp.AsTime: the instant of *ts, the epoch for a nil ts.
AsTime(ts) == IF ts = <<>> THEN 0 ELSE ts[1]

\* The offset from UTC of a location (a *time.Location, <<name>>) in the
\* weeks around the epoch, where New York is on standard time.
ZoneOffset(loc) == IF loc[1] = sNewYork THEN -5 * Hour ELSE 0

\* Zero-padded two-digit decimal.
Pad2(n) == IF n < 10 THEN <<"0">> \o Itoa(n) ELSE Itoa(n)

\* The civil date of the day that lies `day` days after 1 Jan 1970, for the
\* days of December 1969 to February 1970.
CivilDate(day) ==
    LET WeekdayNames ==
            <<(<<"S", "u", "n">>), (<<"M", "o", "n">>), (<<"T", "u", "e">>),
              (<<"W", "e", "d">>), (<<"T", "h", "u">>), (<<"F", "r", "i">>),
              (<<"S", "a", "t">>)>>
    IN
    [weekday |-> WeekdayNames[((4 + day) % 7) + 1],
     year    |-> IF day < 0 THEN <<"1", "9", "6", "9">> ELSE <<"1", "9", "7", "0">>,
     month   |-> IF day < 0 THEN <<"D", "e", "c">>
                 ELSE IF day < 31 THEN <<"J", "a", "n">> ELSE <<"F", "e", "b">>,
     dom     |-> IF day < 0 THEN 32 + day ELSE IF day < 31 THEN day + 1 ELSE day - 30]

\* The wall clock of instant t at offset off: civil date and time of day.
Clock(t, off) ==
    LET local == t + off
        inDay == (local % Day) \div Second
    IN  [date |-> CivilDate(local \div Day),
         hh   |-> inDay \div 3600,
         mm   |-> (inDay \div 60) % 60,
         ss   |-> inDay % 60]

\* t.In(loc).Format(time.RFC1123Z): "Mon, 02 Jan 2006 15:04:05 -0700".
FormatRFC1123Z(t, loc) ==
    LET c   == Clock(t, ZoneOffset(loc))
        off == ZoneOffset(loc)
        a   == IF off < 0 THEN -off ELSE off
        \* the "-0700" element of the layout
        zone == (IF off < 0 THEN <<"-">> ELSE <<"+">>)
                \o Pad2(a \div Hour) \o Pad2((a % Hour) \div Minute)
    IN  c.date.weekday \o <<",", " ">> \o Pad2(c.date.dom) \o <<" ">> \o c.date.month
        \o <<" ">> \o c.date.year \o <<" ">> \o Pad2(c.hh) \o <<":">> \o Pad2(c.mm)
        \o <<":">> \o Pad2(c.ss) \o <<" ">> \o zone

\* badgeTimeLayout, "2 Jan 15:04", applied to t.UTC().
FormatBadgeTime(t) ==
    LET c == Clock(t, 0)
    IN  Itoa(c.date.dom) \o <<" ">> \o c.date.month \o <<" ">> \o Pad2(c.hh)
        \o <<":">> \o Pad2(c.mm)

\* Faulty variant of formatDuration: components that are zero are written
\* too, as time.Duration.String does between two that are not.
formatDuration_keepsZeroes(d) ==
    LET s1  == IF d >= Hour THEN FormatInt(GoDiv(d, Hour)) \o <<"h">> ELSE <<>>
        d1  == IF d >= Hour THEN GoMod(d, Hour) ELSE d
        s2  == IF d1 >= Minute \/ s1 # <<>>
               THEN s1 \o FormatInt(GoDiv(d1, Minute)) \o <<"m">> ELSE s1
        d2  == IF d1 >= Minute THEN GoMod(d1, Minute) ELSE d1
    IN  s2 \o FormatInt(GoDiv(d2, Second)) \o <<"s">>

\* Faulty variant of formatDuration: the seconds are rounded to the nearest
\* whole second.
formatDuration_rounds(d) ==
    LET s1  == IF d >= Hour THEN FormatInt(GoDiv(d, Hour)) \o <<"h">> ELSE <<>>
        d1  == IF d >= Hour THEN GoMod(d, Hour) ELSE d
        s2  == IF d1 >= Minute THEN s1 \o FormatInt(GoDiv(d1, Minute)) \o <<"m">> ELSE s1
        d2  == IF d1 >= Minute THEN GoMod(d1, Minute) ELSE d1
        sec == GoDiv(d2 + 500, Second)
    IN  IF sec > 0 \/ s2 = <<>> THEN s2 \o FormatInt(sec) \o <<"s">> ELSE s2

\* formatDuration: d as e.g. "4h23m5s", "2m4s" or "14s".
formatDuration(d) ==
    LET s1  == IF d >= Hour THEN FormatInt(GoDiv(d, Hour)) \o <<"h">> ELSE <<>>
        d1  == IF d >= Hour THEN GoMod(d, Hour) ELSE d
        s2  == IF d1 >= Minute THEN s1 \o FormatInt(GoDiv(d1, Minute)) \o <<"m">> ELSE s1
        d2  == IF d1 >= Minute THEN GoMod(d1, Minute) ELSE d1
        sec == GoDiv(d2, Second)
    IN  IF sec > 0 \/ s2 = <<>> THEN s2 \o FormatInt(sec) \o <<"s">> ELSE s2

-----------------------------------------------------------------------------
(* config.go: loadConfig *)

s25 == <<"2", "5">>

\* The default of EMAIL_BUILD_STATUSES: "FAILURE,INTERNAL_ERROR,TIMEOUT".
sDefaultStatuses == sFAILURE \o <<",">> \o sINTERNAL_ERROR \o <<",">> \o sTIMEOUT

\* Faulty variant of strVar: def is ignored.
strVar_ignoresDefault(e, n, def) == TrimSpace(e[n])

\* strVar: the trimmed value of environment variable n, or def when it is empty.
strVar(e, n, def) ==
    LET v == TrimSpace(e[n]) IN IF v # <<>> THEN v ELSE def

\* intVar: [v, err] of strconv.Atoi; loadConfig saves err as firstErr.
intVar(e, n, def) == Atoi(strVar(e, n, def))

\* listVar: the set (map[string]struct{}) of the pieces of the value; a nil
\* map, which has length 0 like the empty map, when the value is empty.
listVar(e, n, def) ==
    LET ev == strVar(e, n, def)
    IN  IF Len(ev) = 0 THEN {} ELSE Range(listRegexpSplit(ev))

\* BADGE_REPORTS: "1" or "true" enables reports, the default "0" disables them.
boolVar(e, n, def) == strVar(e, n, def) \in {<<"1">>, <<"t", "r", "u", "e">>}

\* Faulty variant of returnError: `return &cfg, err`.
returnError_partial(c, err) == [cfg |-> <<c>>, err |-> err]

\* `return nil, err`: c is the Config built so far, which is dropped.
returnError(c, err) == [cfg |-> <<>>, err |-> err]

\* Faulty variant of loadConfig: the time zone is validated before all other
\* settings.
loadConfig_zoneFirst(e) ==
    LET port  == intVar(e, "EMAIL_PORT", s25)
        c1    == [emailHostname          |-> strVar(e, "EMAIL_HOSTNAME", <<>>),
                  emailPort              |-> port.v,
                  emailUsername          |-> strVar(e, "EMAIL_USERNAME", <<>>),
                  emailPassword          |-> strVar(e, "EMAIL_PASSWORD", <<>>),
                  emailFrom              |-> <<>>,
                  emailRecipients        |-> <<>>,
                  emailTimeZone          |-> <<>>,
                  emailBuildTriggerIDs   |-> listVar(e, "EMAIL_BUILD_TRIGGER_IDS", <<>>),
                  emailBuildTriggerNames |-> listVar(e, "EMAIL_BUILD_TRIGGER_NAMES", <<>>),
                  emailBuildStatuses     |-> listVar(e, "EMAIL_BUILD_STATUSES", sDefaultStatuses),
                  badgeBucket            |-> strVar(e, "BADGE_BUCKET", <<>>),
                  badgeReports           |-> boolVar(e, "BADGE_REPORTS", <<"0">>)]
        firstErr == port.err
        fromV == strVar(e, "EMAIL_FROM", <<>>)
        from  == ParseAddress(fromV)
        c2    == IF fromV # <<>> /\ from.ok
                 THEN [c1 EXCEPT !.emailFrom = <<from.addr>>] ELSE c1
        rcptV == strVar(e, "EMAIL_RECIPIENTS", <<>>)
        rcpt  == ParseAddressList(rcptV)
        c3    == IF rcptV # <<>> /\ rcpt.ok
                 THEN [c2 EXCEPT !.emailRecipients = rcpt.list] ELSE c2
        tz    == LoadLocation(strVar(e, "EMAIL_TIME_ZONE", sEtcUTC))
        c4    == [c3 EXCEPT !.emailTimeZone = tz.loc]
        bad   == {st \in c4.emailBuildStatuses : st \notin Build_Status_value}
    IN  IF ~tz.ok
        THEN {returnError(c3, <<"bad ", "EMAIL_TIME_ZONE", ": ">> \o tz.err)}
        ELSE IF firstErr # nil THEN {returnError(c1, firstErr)}
        ELSE IF fromV # <<>> /\ ~from.ok
        THEN {returnError(c1, <<"bad ", "EMAIL_FROM", ": ">> \o from.err)}
        ELSE IF rcptV # <<>> /\ ~rcpt.ok
        THEN {returnError(c2, <<"bad ", "EMAIL_RECIPIENTS", ": ">> \o rcpt.err)}
        ELSE IF ~tz.ok
        THEN {returnError(c3, <<"bad ", "EMAIL_TIME_ZONE", ": ">> \o tz.err)}
        ELSE IF bad # {}
        THEN {returnError(c4, <<"bad status ">> \o Quote(st) \o <<" in ", "EMAIL_BUILD_STATUSES">>) :
                 st \in bad}
        ELSE {[cfg |-> <<c4>>, err |-> nil]}

\* loadConfig: the set of results [cfg, err] it can return for environment e
\* (more than one only when several statuses are unknown: the validation
\* ranges over a map, and reports the first unknown status it meets).
loadConfig(e) ==
    LET port  == intVar(e, "EMAIL_PORT", s25)
        c1    == [emailHostname          |-> strVar(e, "EMAIL_HOSTNAME", <<>>),
                  emailPort              |-> port.v,
                  emailUsername          |-> strVar(e, "EMAIL_USERNAME", <<>>),
                  emailPassword          |-> strVar(e, "EMAIL_PASSWORD", <<>>),
                  emailFrom              |-> <<>>,
                  emailRecipients        |-> <<>>,
                  emailTimeZone          |-> <<>>,
                  emailBuildTriggerIDs   |-> listVar(e, "EMAIL_BUILD_TRIGGER_IDS", <<>>),
                  emailBuildTriggerNames |-> listVar(e, "EMAIL_BUILD_TRIGGER_NAMES", <<>>),
                  emailBuildStatuses     |-> listVar(e, "EMAIL_BUILD_STATUSES", sDefaultStatuses),
                  badgeBucket            |-> strVar(e, "BADGE_BUCKET", <<>>),
                  badgeReports           |-> boolVar(e, "BADGE_REPORTS", <<"0">>)]
        firstErr == port.err
        fromV == strVar(e, "EMAIL_FROM", <<>>)
        from  == ParseAddress(fromV)
        c2    == IF fromV # <<>> /\ from.ok
                 THEN [c1 EXCEPT !.emailFrom = <<from.addr>>] ELSE c1
        rcptV == strVar(e, "EMAIL_RECIPIENTS", <<>>)
        rcpt  == ParseAddressList(rcptV)
        c3    == IF rcptV # <<>> /\ rcpt.ok
                 THEN [c2 EXCEPT !.emailRecipients = rcpt.list] ELSE c2
        tz    == LoadLocation(strVar(e, "EMAIL_TIME_ZONE", sEtcUTC))
        c4    == [c3 EXCEPT !.emailTimeZone = tz.loc]
        bad   == {st \in c4.emailBuildStatuses : st \notin Build_Status_value}
    IN  IF firstErr # nil THEN {returnError(c1, firstErr)}
        ELSE IF fromV # <<>> /\ ~from.ok
        THEN {returnError(c1, <<"bad ", "EMAIL_FROM", ": ">> \o from.err)}
        ELSE IF rcptV # <<>> /\ ~rcpt.ok
        THEN {returnError(c2, <<"bad ", "EMAIL_RECIPIENTS", ": ">> \o rcpt.err)}
        ELSE IF ~tz.ok
        THEN {returnError(c3, <<"bad ", "EMAIL_TIME_ZONE", ": ">> \o tz.err)}
        ELSE IF bad # {}
        THEN {returnError(c4, <<"bad status ">> \o Quote(st) \o <<" in ", "EMAIL_BUILD_STATUSES">>) :
                 st \in bad}
        ELSE {[cfg |-> <<c4>>, err |-> nil]}

-----------------------------------------------------------------------------
(* watch.go: buildSub; config.go: checkEmail, checkBadge *)

triggerNameSub == "TRIGGER_NAME"

branchSub == "BRANCH_NAME"

commitSub == "COMMIT_SHA"

repoSub == "REPO_NAME"

\* Faulty variant of buildSub: an empty value counts as a missing one.
buildSub_emptyIsMissing(b, name, def) ==
    IF b.Substitutions[name] # <<>> /\ b.Substitutions[name][1] # <<>>
    THEN b.Substitutions[name][1]
    ELSE def

\* buildSub: b.Substitutions[name] when the key is present (<<v>>), def otherwise.
buildSub(b, name, def) ==
    IF b.Substitutions[name] # <<>> THEN b.Substitutions[name][1] ELSE def

\* Faulty variant of emailSettingsError: the from-address is checked before
\* the port.
emailSettingsError_fromFirst(c) ==
    IF c.emailHostname = <<>> THEN <<"EMAIL_HOSTNAME", " not set">>
    ELSE IF c.emailFrom = <<>> THEN <<"EMAIL_FROM", " not set">>
    ELSE IF c.emailPort <= 0 THEN <<"EMAIL_PORT", " not set">>
    ELSE IF Len(c.emailRecipients) = 0 THEN <<"EMAIL_RECIPIENTS", " not set">>
    ELSE nil

\* Faulty variant of emailSettingsError: the from-address is not checked.
emailSettingsError_noFrom(c) ==
    IF c.emailHostname = <<>> THEN <<"EMAIL_HOSTNAME", " not set">>
    ELSE IF c.emailPort <= 0 THEN <<"EMAIL_PORT", " not set">>
    ELSE IF Len(c.emailRecipients) = 0 THEN <<"EMAIL_RECIPIENTS", " not set">>
    ELSE nil

\* The four settings checks at the head of checkEmail: the first failing one.
emailSettingsError(c) ==
    IF c.emailHostname = <<>> THEN <<"EMAIL_HOSTNAME", " not set">>
    ELSE IF c.emailPort <= 0 THEN <<"EMAIL_PORT", " not set">>
    ELSE IF c.emailFrom = <<>> THEN <<"EMAIL_FROM", " not set">>
    ELSE IF Len(c.emailRecipients) = 0 THEN <<"EMAIL_RECIPIENTS", " not set">>
    ELSE nil

\* Faulty variant of checkGlobs: a pattern error ends the loop with no match.
checkGlobs_errorAborts(c, name) ==
    /\ \A p \in c.emailBuildTriggerNames : ~Match(p, name).err
    /\ \E p \in c.emailBuildTriggerNames : Match(p, name).m

\* checkGlobs: some entry of the trigger-name set matches name as a glob,
\* with no matching error.
checkGlobs(c, name) ==
    \E p \in c.emailBuildTriggerNames :
        LET r == Match(p, name) IN ~r.err /\ r.m

\* Faulty variant of triggerMatched: each configured set must match.
triggerMatched_bothRequired(c, b) ==
    LET name == buildSub(b, triggerNameSub, <<>>)
    IN  /\ c.emailBuildTriggerIDs # {} => b.BuildTriggerId \in c.emailBuildTriggerIDs
        /\ c.emailBuildTriggerNames # {} =>
              (name \in c.emailBuildTriggerNames \/ checkGlobs(c, name))

\* The trigger check of checkEmail passes: no set is configured, or
\* idOk || nameOk || checkGlobs().
triggerMatched(c, b) ==
    LET name   == buildSub(b, triggerNameSub, <<>>)
        idOk   == b.BuildTriggerId \in c.emailBuildTriggerIDs
        nameOk == name \in c.emailBuildTriggerNames
    IN  (c.emailBuildTriggerIDs # {} \/ c.emailBuildTriggerNames # {})
            => (idOk \/ nameOk \/ checkGlobs(c, name))

\* Faulty variant of statusMatched: the status is formatted as its number.
statusMatched_byNumber(c, b) == FormatInt(b.Status) \in c.emailBuildStatuses

\* The status check of checkEmail passes.
statusMatched(c, b) == StatusString(b.Status) \in c.emailBuildStatuses

triggerError(b) ==
    <<"trigger ">> \o b.BuildTriggerId \o <<" (">>
        \o Quote(buildSub(b, triggerNameSub, <<>>))
        \o <<") not matched by ", "EMAIL_BUILD_TRIGGER_IDS", " or ", "EMAIL_BUILD_TRIGGER_NAMES">>

statusError(b) ==
    <<"status ">> \o Quote(StatusString(b.Status)) \o <<" not matched by ", "EMAIL_BUILD_STATUSES">>

\* checkEmail: nil if an email should be sent for b per c, the reason otherwise.
checkEmail(c, b) ==
    IF emailSettingsError(c) # nil THEN emailSettingsError(c)
    ELSE IF ~triggerMatched(c, b) THEN triggerError(b)
    ELSE IF ~statusMatched(c, b) THEN statusError(b)
    ELSE nil

\* badgeStatuses: how the right side of the badge is rendered, by status.
badgeStatuses ==
    (Build_SUCCESS :> [Text |-> "success", FG |-> "#fff", BG |-> "#2da44e", Width |-> 52])
    @@ (Build_FAILURE :> [Text |-> "failure", FG |-> "#fff", BG |-> "#c62828", Width |-> 52])
    @@ (Build_INTERNAL_ERROR :> [Text |-> "error", FG |-> "#000", BG |-> "#ffeb3b", Width |-> 52])
    @@ (Build_TIMEOUT :> [Text |-> "timeout", FG |-> "#fff", BG |-> "#333", Width |-> 52])

\* Faulty variant of checkBadge: every status but STATUS_UNKNOWN is accepted.
checkBadge_anyStatus(c, b) ==
    IF c.badgeBucket = <<>> THEN <<"BADGE_BUCKET", " not set">>
    ELSE IF b.BuildTriggerId = <<>> THEN <<"build not started by a trigger">>
    ELSE IF b.Status = 0
    THEN <<"non-badge status ">> \o Quote(StatusString(b.Status))
    ELSE nil

\* Faulty variant of checkBadge: the status is checked before the trigger ID.
checkBadge_statusFirst(c, b) ==
    IF c.badgeBucket = <<>> THEN <<"BADGE_BUCKET", " not set">>
    ELSE IF b.Status \notin DOMAIN badgeStatuses
    THEN <<"non-badge status ">> \o Quote(StatusString(b.Status))
    ELSE IF b.BuildTriggerId = <<>> THEN <<"build not started by a trigger">>
    ELSE nil

\* checkBadge: nil if a badge should be written for b per c, the reason otherwise.
checkBadge(c, b) ==
    IF c.badgeBucket = <<>> THEN <<"BADGE_BUCKET", " not set">>
    ELSE IF b.BuildTriggerId = <<>> THEN <<"build not started by a trigger">>
    ELSE IF b.Status \notin DOMAIN badgeStatuses
    THEN <<"non-badge status ">> \o Quote(StatusString(b.Status))
    ELSE nil

-----------------------------------------------------------------------------
(* badge.go: CreateBadge, CreateReport *)

\* badgeLeft: the left side of the badge; its width is inferred.
badgeLeft == [Text |-> "build", FG |-> "#fff", BG |-> "#555", Width |-> -1]

\* Faulty variant of Center: the right edge of the portion.
Center_edge(bi) == bi.Width

\* badgeInfo.Center
Center(bi) == GoDiv(bi.Width, 2)

\* The error of CreateBadge: only statuses of badgeStatuses can be rendered.
CreateBadgeError(b) ==
    IF b.Status \notin DOMAIN badgeStatuses
    THEN <<"no badge info defined for status ">> \o Quote(StatusString(b.Status))
    ELSE nil

\* badgeTemplate executed on Left, Right and Date: the lines written.
badgeTemplate(left, right, date) ==
    << <<"<svg xmlns=\"http://www.w3.org/2000/svg\" width=\"90\" height=\"20\">">>,
       <<"  <g font-family=\"DejaVu Sans,Verdana,Geneva,sans-serif\" text-anchor=\"middle\" font-size=\"10\">">>,
       <<"    <rect width=\"90\" height=\"20\" rx=\"3\" fill=\"", left.BG, "\" />">>,
       <<"    <text x=\"">> \o FormatInt(Center(left)) \o <<"\" y=\"14\" fill=\"", left.FG, "\">",
                               left.Text, "</text>">>,
       <<"    <g transform=\"translate(">> \o FormatInt(left.Width) \o <<",0)\">">>,
       <<"      <rect width=\"">> \o FormatInt(right.Width)
           \o <<"\" height=\"20\" rx=\"3\" fill=\"", right.BG, "\" />">>,
       <<"      <path d=\"M0 0h4v20h-4z\" fill=\"", right.BG, "\" />">>,
       <<"      <text x=\"">> \o FormatInt(Center(right)) \o <<"\" y=\"14\" fill=\"", right.FG,
                                 "\">", right.Text, "</text>">>,
       <<"    </g>">>,
       <<"    <rect width=\"90\" height=\"20\" rx=\"3\" fill=\"#555\" opacity=\"0\">">>,
       <<"      <set attributeName=\"opacity\" to=\"1\" begin=\"over.mouseover\" end=\"over.mouseout\" />">>,
       <<"    </rect>">>,
       <<"    <text x=\"45\" y=\"14\" fill=\"#fff\" opacity=\"0\">">> \o date,
       <<"      <set attributeName=\"opacity\" to=\"1\" begin=\"over.mouseover\" end=\"over.mouseout\" />">>,
       <<"    </text>">>,
       <<"    <rect id=\"over\" width=\"90\" height=\"20\" opacity=\"0\" />">>,
       <<"  </g>">>,
       <<"</svg>">> >>

\* Faulty variant of CreateBadge: the date shown is the one of FinishTime.
CreateBadge_finishTime(b) ==
    IF b.Status \notin DOMAIN badgeStatuses
    THEN [err |-> CreateBadgeError(b), out |-> <<>>]
    ELSE LET right == badgeStatuses[b.Status]
             left  == [badgeLeft EXCEPT !.Width = 90 - right.Width]
         IN  [err |-> nil,
              out |-> badgeTemplate(left, right, FormatBadgeTime(AsTime(b.FinishTime)))]

\* Faulty variant of CreateBadge: a status without badge info is rendered
\* with a segment of its own.
CreateBadge_fallback(b) ==
    LET right == IF b.Status \in DOMAIN badgeStatuses
                 THEN badgeStatuses[b.Status]
                 ELSE [Text |-> "unknown", FG |-> "#fff", BG |-> "#999", Width |-> 52]
        left  == [badgeLeft EXCEPT !.Width = 90 - right.Width]
    IN  [err |-> nil,
         out |-> badgeTemplate(left, right, FormatBadgeTime(AsTime(b.StartTime)))]

\* CreateBadge: [err, out], out being what was written to w.
CreateBadge(b) ==
    IF b.Status \notin DOMAIN badgeStatuses
    THEN [err |-> CreateBadgeError(b), out |-> <<>>]
    ELSE LET right == badgeStatuses[b.Status]
             left  == [badgeLeft EXCEPT !.Width = 90 - right.Width]
         IN  [err |-> nil,
              out |-> badgeTemplate(left, right, FormatBadgeTime(AsTime(b.StartTime)))]

\* html/template's escaping of one character in element content.
HTMLEscapeChar(c) ==
    CASE c = "&"  -> <<"&", "a", "m", "p", ";">>
      [] c = "<"  -> <<"&", "l", "t", ";">>
      [] c = ">"  -> <<"&", "g", "t", ";">>
      [] c = "\"" -> <<"&", "#", "3", "4", ";">>
      [] c = "'"  -> <<"&", "#", "3", "9", ";">>
      [] c = "+"  -> <<"&", "#", "4", "3", ";">>
      [] OTHER    -> <<c>>

RECURSIVE HTMLEscape(_)
HTMLEscape(s) == IF s = <<>> THEN <<>> ELSE HTMLEscapeChar(Head(s)) \o HTMLEscape(Tail(s))

\* reportTemplate executed by html/template on Status, Start, End, Duration.
reportTemplate(td) ==
    << <<"<!DOCTYPE html>">>, <<"<html>">>, <<"<head>">>, <<"<meta charset=\"utf-8\">">>,
       <<"<title>Build report</title>">>, <<"<style>">>, <<"body {">>,
       <<"  font-family: Arial, Helvetica, sans-serif;">>, <<"}">>, <<"table {">>,
       <<"  border-spacing: 0;">>, <<"}">>, <<"td.left {">>, <<"  font-weight: bold;">>,
       <<"  padding-right: 1em;">>, <<"}">>, <<"</style>">>, <<"</head>">>, <<"<body>">>,
       <<"<table>">>,
       <<"  <tr><td class=\"left\">Status</td><td>">> \o HTMLEscape(td.Status) \o <<"</td></tr>">>,
       <<"  <tr><td class=\"left\">Start</td><td>">> \o HTMLEscape(td.Start) \o <<"</td></tr>">>,
       <<"  <tr><td class=\"left\">End</td><td>">> \o HTMLEscape(td.End) \o <<" (">>
           \o HTMLEscape(td.Duration) \o <<")</td></tr>">>,
       <<"</table>">>, <<"</body>">>, <<"</html>">> >>

\* Faulty variant of CreateReport: the status row also shows the build ID.
CreateReport_withId(b) ==
    LET start == AsTime(b.StartTime)
        end   == AsTime(b.FinishTime)
    IN  [err |-> nil,
         out |-> reportTemplate([Status   |-> StatusString(b.Status) \o <<" ">> \o b.Id,
                                 Start    |-> FormatRFC1123Z(start, <<sUTC>>),
                                 End      |-> FormatRFC1123Z(end, <<sUTC>>),
                                 Duration |-> formatDuration(end - start)])]

\* CreateReport: [err, out]; the template is a constant and its data has
\* every field, so parsing and executing it report no error.
CreateReport(b) ==
    LET start == AsTime(b.StartTime)
        end   == AsTime(b.FinishTime)
    IN  [err |-> nil,
         out |-> reportTemplate([Status   |-> StatusString(b.Status),
                                 Start    |-> FormatRFC1123Z(start, <<sUTC>>),
                                 End      |-> FormatRFC1123Z(end, <<sUTC>>),
                                 Duration |-> formatDuration(end - start)])]

-----------------------------------------------------------------------------
(* email.go: BuildEmail, sendEmail *)

RECURSIVE Join(_, _)
\* strings.Join
Join(ss, sep) ==
    IF ss = <<>> THEN <<>>
    ELSE IF Len(ss) = 1 THEN ss[1]
    ELSE ss[1] \o sep \o Join(Tail(ss), sep)

\* emailRecipientsAddrs: the bare addresses of c.emailRecipients.
emailRecipientsAddrs(c) ==
    [i \in 1..Len(c.emailRecipients) |-> c.emailRecipients[i].Address]

\* mail.Address.String for names and addresses of plain ASCII.
AddressString(a) ==
    IF a.Name = <<>> THEN <<"<">> \o a.Address \o <<">">>
    ELSE Quote(a.Name) \o <<" ", "<">> \o a.Address \o <<">">>

RECURSIVE SplitFirst(_, _)
\* strings.Split(s, sep)[0]: s up to its first sep, all of s without one.
SplitFirst(s, sep) ==
    IF s = <<>> \/ Head(s) = sep THEN <<>> ELSE <<Head(s)>> \o SplitFirst(Tail(s), sep)

\* The `or` of text/template: the first non-empty argument, else the last.
TemplateOr(a, b) == IF a # <<>> THEN a ELSE b

\* The template data of BuildEmail.
tdata(c, b) ==
    LET start == AsTime(b.StartTime)
        end   == AsTime(b.FinishTime)
    IN  [BuildID     |-> b.Id,
         LogURL      |-> b.LogUrl,
         TriggerID   |-> b.BuildTriggerId,
         TriggerName |-> buildSub(b, triggerNameSub, <<>>),
         TriggerURL  |-> <<"https://console.cloud.google.com/cloud-build/triggers/edit/">>
                         \o b.BuildTriggerId,
         Status      |-> StatusString(b.Status),
         Repo        |-> buildSub(b, repoSub, <<>>),
         Commit      |-> buildSub(b, commitSub, <<>>),
         Branch      |-> buildSub(b, branchSub, <<>>),
         Start       |-> FormatRFC1123Z(start, c.emailTimeZone),
         End         |-> FormatRFC1123Z(end, c.emailTimeZone),
         Duration    |-> formatDuration(end - start)]

\* Faulty variant of IfLine: the line is written whatever v is.
IfLine_always(v, line) == <<line>>

\* A line of a template that sits inside {{if v -}} ... {{end -}}.
IfLine(v, line) == IF v # <<>> THEN <<line>> ELSE <<>>

\* textTemplate executed on td: the lines written.
textTemplate(td) ==
    << <<"Build:     ">> \o td.BuildID >>
    \o IfLine(td.TriggerID, <<"Trigger:   ">> \o TemplateOr(td.TriggerName, td.TriggerID))
    \o << <<"Status:    ">> \o td.Status >>
    \o IfLine(td.Repo, <<"Repo:      ">> \o td.Repo)
    \o IfLine(td.Commit, <<"Commit:    ">> \o td.Commit)
    \o IfLine(td.Branch, <<"Branch:    ">> \o td.Branch)
    \o << <<"Start:     ">> \o td.Start,
          <<"End:       ">> \o td.End \o <<" (">> \o td.Duration \o <<")">>,
          <<"Log:       ">> \o td.LogURL >>

\* htmlTemplate executed on td (by text/template, which escapes nothing).
htmlTemplate(td) ==
    << <<"<!DOCTYPE html>">>, <<"<html>">>, <<"<head>">>, <<"<meta charset=\"utf-8\">">>,
       <<"<style>">>, <<"body {">>, <<"  font-family: Arial, Helvetica, sans-serif;">>,
       <<"}">>, <<"table {">>, <<"  border-spacing: 0;">>, <<"}">>, <<"td.left {">>,
       <<"  font-weight: bold;">>, <<"  padding-right: 1em;">>, <<"}">>, <<"</style>">>,
       <<"</head>">>, <<"<body>">>, <<"<table>">>,
       <<"  <tr><td class=\"left\">Build</td><td><a href=\"">> \o td.LogURL \o <<"\">">>
           \o td.BuildID \o <<"</a></td></tr>">> >>
    \o IfLine(td.TriggerID,
              <<"  <tr><td class=\"left\">Trigger</td><td><a href=\"">> \o td.TriggerURL
              \o <<"\">">> \o TemplateOr(td.TriggerName, td.TriggerID) \o <<"</a></td></tr>">>)
    \o << <<"  <tr><td class=\"left\">Status</td><td>">> \o td.Status \o <<"</td></tr>">> >>
    \o IfLine(td.Repo, <<"  <tr><td class=\"left\">Repo</td><td>">> \o td.Repo \o <<"</td></tr>">>)
    \o IfLine(td.Commit,
              <<"  <tr><td class=\"left\">Commit</td><td>">> \o td.Commit \o <<"</td></tr>">>)
    \o IfLine(td.Branch,
              <<"  <tr><td class=\"left\">Branch</td><td>">> \o td.Branch \o <<"</td></tr>">>)
    \o << <<"  <tr><td class=\"left\">Start</td><td>">> \o td.Start \o <<"</td></tr>">>,
          <<"  <tr><td class=\"left\">End</td><td>">> \o td.End \o <<" (">> \o td.Duration
              \o <<")</td></tr>">>,
          <<"</table>">>, <<"</body>">>, <<"</html>">> >>

\* The default of the trigger name in the Subject header.
sUnknown == <<"[", "u", "n", "k", "n", "o", "w", "n", "]">>

\* multipart.NewWriter picks a random boundary; mw.Boundary() returns it.
Boundaries == {"BOUNDARY-A", "BOUNDARY-B"}

\* The steps of BuildEmail and sendEmail whose library call can report an error.
EmailFailures == {"none", "text", "HTML", "Close", "SendMail"}

\* Faulty variant of BuildEmail: the text part starts with a line that gives
\* the instant of the call.
BuildEmail_stamped(c, b, now, bnd, fail) ==
    LET head == << <<"From", ": ">> \o AddressString(c.emailFrom[1]),
                   <<"To", ": ">> \o Join(emailRecipientsAddrs(c), <<",", " ">>),
                   <<"Subject", ": ", "[">> \o b.ProjectId \o <<"]", " ">>
                       \o buildSub(b, triggerNameSub, sUnknown) \o <<" ">>
                       \o StatusString(b.Status) \o <<" (build ">>
                       \o SplitFirst(b.Id, "-") \o <<")">>,
                   <<"Date", ": ">> \o FormatRFC1123Z(now, c.emailTimeZone),
                   <<"MIME-Version", ": ", "1.0">>,
                   <<"Content-Type", ": ", "multipart/alternative; boundary=", bnd>>,
                   <<>> >>
        td   == tdata(c, b)
        part(ctype) == << <<"--", bnd>>, <<"Content-Type", ": ", ctype>>, <<>> >>
    IN  IF fail = "text" THEN [msg |-> <<>>, err |-> <<"text: ", "template: execution failed">>]
        ELSE IF fail = "HTML"
        THEN [msg |-> <<>>, err |-> <<"HTML: ", "template: execution failed">>]
        ELSE IF fail = "Close" THEN [msg |-> <<>>, err |-> <<"multipart: Close failed">>]
        ELSE [msg |-> head
                      \o part("text/plain; charset=UTF-8")
                      \o << <<"Sent:      ">> \o FormatRFC1123Z(now, c.emailTimeZone) >>
                      \o textTemplate(td)
                      \o part("text/html; charset=UTF-8") \o htmlTemplate(td)
                      \o << <<"--", bnd, "--">> >>,
              err |-> nil]

\* Faulty variant of BuildEmail: the HTML part is written before the text
\* part, and what was written is returned when the text part fails.
\* now is time.Now(), bnd the boundary the multipart writer picked; fail
\* names the step that reports an error, if any.
BuildEmail_htmlFirst(c, b, now, bnd, fail) ==
    LET head == << <<"From", ": ">> \o AddressString(c.emailFrom[1]),
                   <<"To", ": ">> \o Join(emailRecipientsAddrs(c), <<",", " ">>),
                   <<"Subject", ": ", "[">> \o b.ProjectId \o <<"]", " ">>
                       \o buildSub(b, triggerNameSub, sUnknown) \o <<" ">>
                       \o StatusString(b.Status) \o <<" (build ">>
                       \o SplitFirst(b.Id, "-") \o <<")">>,
                   <<"Date", ": ">> \o FormatRFC1123Z(now, c.emailTimeZone),
                   <<"MIME-Version", ": ", "1.0">>,
                   <<"Content-Type", ": ", "multipart/alternative; boundary=", bnd>>,
                   <<>> >>
        td   == tdata(c, b)
        part(ctype) == << <<"--", bnd>>, <<"Content-Type", ": ", ctype>>, <<>> >>
    IN  IF fail = "text" THEN [msg |-> head, err |-> <<"text: ", "template: execution failed">>]
        ELSE IF fail = "HTML"
        THEN [msg |-> <<>>, err |-> <<"HTML: ", "template: execution failed">>]
        ELSE IF fail = "Close" THEN [msg |-> <<>>, err |-> <<"multipart: Close failed">>]
        ELSE [msg |-> head
                      \o part("text/html; charset=UTF-8") \o htmlTemplate(td)
                      \o part("text/plain; charset=UTF-8") \o textTemplate(td)
                      \o << <<"--", bnd, "--">> >>,
              err |-> nil]

\* BuildEmail: [msg, err]; msg is the lines of the message, <<>> for nil.
\* now is time.Now(), bnd the boundary the multipart writer picked; fail
\* names the step that reports an error, if any.
BuildEmail(c, b, now, bnd, fail) ==
    LET head == << <<"From", ": ">> \o AddressString(c.emailFrom[1]),
                   <<"To", ": ">> \o Join(emailRecipientsAddrs(c), <<",", " ">>),
                   <<"Subject", ": ", "[">> \o b.ProjectId \o <<"]", " ">>
                       \o buildSub(b, triggerNameSub, sUnknown) \o <<" ">>
                       \o StatusString(b.Status) \o <<" (build ">>
                       \o SplitFirst(b.Id, "-") \o <<")">>,
                   <<"Date", ": ">> \o FormatRFC1123Z(now, c.emailTimeZone),
                   <<"MIME-Version", ": ", "1.0">>,
                   <<"Content-Type", ": ", "multipart/alternative; boundary=", bnd>>,
                   <<>> >>
        td   == tdata(c, b)
        part(ctype) == << <<"--", bnd>>, <<"Content-Type", ": ", ctype>>, <<>> >>
    IN  IF fail = "text" THEN [msg |-> <<>>, err |-> <<"text: ", "template: execution failed">>]
        ELSE IF fail = "HTML"
        THEN [msg |-> <<>>, err |-> <<"HTML: ", "template: execution failed">>]
        ELSE IF fail = "Close" THEN [msg |-> <<>>, err |-> <<"multipart: Close failed">>]
        ELSE [msg |-> head
                      \o part("text/plain; charset=UTF-8") \o textTemplate(td)
                      \o part("text/html; charset=UTF-8") \o htmlTemplate(td)
                      \o << <<"--", bnd, "--">> >>,
              err |-> nil]

\* sendEmail: builds the message (BuildEmail dereferences c.emailFrom and
\* c.emailTimeZone: a nil one panics) and hands it to smtp.SendMail.
sendEmail(c, b, now, bnd, fail) ==
    IF c.emailFrom = <<>> \/ c.emailTimeZone = <<>>
    THEN [panic |-> TRUE, err |-> nil, logs |-> <<>>, mail |-> <<>>]
    ELSE LET m == BuildEmail(c, b, now, bnd, fail)
         IN  IF m.err # nil
             THEN [panic |-> FALSE, err |-> <<"building email: ">> \o m.err,
                   logs |-> <<>>, mail |-> <<>>]
             ELSE [panic |-> FALSE,
                   err   |-> IF fail = "SendMail" THEN <<"smtp.SendMail failed">> ELSE nil,
                   logs  |-> <<<<"Sending email to ">> \o Join(emailRecipientsAddrs(c), <<",">>)>>,
                   mail  |-> <<[addr |-> c.emailHostname \o <<":">> \o FormatInt(c.emailPort),
                                auth |-> IF c.emailUsername # <<>>
                                         THEN <<c.emailUsername, c.emailPassword, c.emailHostname>>
                                         ELSE <<>>,
                                from |-> c.emailFrom[1].Address,
                                to   |-> emailRecipientsAddrs(c),
                                msg  |-> m.msg]>>]

-----------------------------------------------------------------------------
(* badge.go: writeBadge *)

badgeCacheControl == "max-age=30, s-maxage=30"

\* The steps of writeBadge at which Cloud Storage can fail.
StorageFailures == {"none", "NewClient", "badge Close", "report Close"}

\* Faulty variant of writeBadge: the report is written although closing the
\* badge failed.
writeBadge_reportAnyway(c, b, fail) ==
    IF b.BuildTriggerId = <<>>
    THEN [err |-> <<"no build trigger ID">>, logs |-> <<>>, objects |-> <<>>]
    ELSE
    LET name  == b.BuildTriggerId \o <<".", "s", "v", "g">>
        rname == b.BuildTriggerId \o <<".", "h", "t", "m", "l">>
        log1  == <<"Writing badge ">> \o name \o <<" to bucket ">> \o c.badgeBucket
        badge == CreateBadge(b)
        report == CreateReport(b)
        svg   == [bucket |-> c.badgeBucket, name |-> name,
                  ContentType |-> "image/svg+xml", CacheControl |-> badgeCacheControl,
                  content |-> badge.out]
        html  == [bucket |-> c.badgeBucket, name |-> rname,
                  ContentType |-> "text/html; charset=UTF-8",
                  CacheControl |-> badgeCacheControl,
                  content |-> report.out]
    IN  IF fail = "NewClient"
        THEN [err |-> <<"storage.NewClient failed">>, logs |-> <<log1>>, objects |-> <<>>]
        ELSE IF badge.err # nil
        THEN [err |-> badge.err, logs |-> <<log1>>, objects |-> <<>>]
        ELSE IF fail = "badge Close"
        THEN [err |-> <<"storage: Writer.Close failed">>, logs |-> <<log1>>,
              objects |-> IF c.badgeReports /\ report.err = nil THEN <<html>> ELSE <<>>]
        ELSE IF c.badgeReports
        THEN IF report.err # nil
             THEN [err |-> report.err, logs |-> <<log1>>, objects |-> <<svg>>]
             ELSE IF fail = "report Close"
             THEN [err |-> <<"storage: Writer.Close failed">>, logs |-> <<log1>>,
                   objects |-> <<svg>>]
             ELSE [err |-> nil, logs |-> <<log1>>, objects |-> <<svg, html>>]
        ELSE [err |-> nil, logs |-> <<log1>>, objects |-> <<svg>>]

\* writeBadge: [err, logs, objects written and closed]; fail names the
\* storage step that fails, if any.
writeBadge(c, b, fail) ==
    IF b.BuildTriggerId = <<>>
    THEN [err |-> <<"no build trigger ID">>, logs |-> <<>>, objects |-> <<>>]
    ELSE
    LET name  == b.BuildTriggerId \o <<".", "s", "v", "g">>
        rname == b.BuildTriggerId \o <<".", "h", "t", "m", "l">>
        log1  == <<"Writing badge ">> \o name \o <<" to bucket ">> \o c.badgeBucket
        badge == CreateBadge(b)
        report == CreateReport(b)
        svg   == [bucket |-> c.badgeBucket, name |-> name,
                  ContentType |-> "image/svg+xml", CacheControl |-> badgeCacheControl,
                  content |-> badge.out]
        html  == [bucket |-> c.badgeBucket, name |-> rname,
                  ContentType |-> "text/html; charset=UTF-8",
                  CacheControl |-> badgeCacheControl,
                  content |-> report.out]
    IN  IF fail = "NewClient"
        THEN [err |-> <<"storage.NewClient failed">>, logs |-> <<log1>>, objects |-> <<>>]
        ELSE IF badge.err # nil
        THEN [err |-> badge.err, logs |-> <<log1>>, objects |-> <<>>]
        ELSE IF fail = "badge Close"
        THEN [err |-> <<"storage: Writer.Close failed">>, logs |-> <<log1>>, objects |-> <<>>]
        ELSE IF c.badgeReports
        THEN IF report.err # nil
             THEN [err |-> report.err, logs |-> <<log1>>, objects |-> <<svg>>]
             ELSE IF fail = "report Close"
             THEN [err |-> <<"storage: Writer.Close failed">>, logs |-> <<log1>>,
                   objects |-> <<svg>>]
             ELSE [err |-> nil, logs |-> <<log1>>, objects |-> <<svg, html>>]
        ELSE [err |-> nil, logs |-> <<log1>>, objects |-> <<svg>>]

-----------------------------------------------------------------------------
(* The inputs of the model *)

\* Build statuses 0..MaxStatus are delivered by Cloud Build in the model.
MaxStatus == 7

sHost      == <<"s", "m", "t", "p">>
s587       == <<"5", "8", "7">>
sFromGood  == <<"C", "B", " ", "<", "b", "@", "x", ">">>
sFromBad   == <<"b", "x">>
sRcptGood  == <<"u", "@", "x", ",", " ", "v", "@", "x">>
sRcptBad   == <<"u", "@", "x", ",", "v">>
sZoneBad   == <<"M", "a", "r", "s">>
sBucket    == <<"b", "k", "t">>
s123       == <<"1", "2", "3">>
s456       == <<"4", "5", "6">>
sTrigger1  == <<"t", "r", "i", "g", "g", "e", "r", "-", "1">>
sTrigger2  == <<"t", "r", "i", "g", "g", "e", "r", "-", "2">>
sBadTrigger == <<"b", "a", "d", "-", "t", "r", "i", "g", "g", "e", "r">>
sMainDeploy == <<"m", "a", "i", "n", "-", "d", "e", "p", "l", "o", "y">>
sRelease1  == <<"r", "e", "l", "e", "a", "s", "e", "-", "1">>
sMainGlob  == <<"m", "a", "i", "n", "-", "*">>
sGlob1     == <<"*", "1">>
sBadGlob   == <<"[", "a">>
sNope      == <<"N", "O", "P", "E">>
sWorse     == <<"W", "O", "R", "S", "E">>

Environ(host, port, user, from, rcpt, tz, ids, names, statuses, bucket, reports) ==
    [EMAIL_HOSTNAME            |-> host,
     EMAIL_PORT                |-> port,
     EMAIL_USERNAME            |-> user,
     EMAIL_PASSWORD            |-> user,
     EMAIL_FROM                |-> from,
     EMAIL_RECIPIENTS          |-> rcpt,
     EMAIL_TIME_ZONE           |-> tz,
     EMAIL_BUILD_TRIGGER_IDS   |-> ids,
     EMAIL_BUILD_TRIGGER_NAMES |-> names,
     EMAIL_BUILD_STATUSES      |-> statuses,
     BADGE_BUCKET              |-> bucket,
     BADGE_REPORTS             |-> reports]

BadgeSettings == {<<<<>>, <<>>>>, <<sBucket, <<>>>>, <<sBucket, <<"1">>>>}

\* Environments that vary the delivery settings and the validity of every
\* parsed setting, with no trigger restriction.
EnvsSettings ==
    {Environ(host, port, <<>>, from, rcpt, tz, <<>>, <<>>, statuses, bs[1], bs[2]) :
        host \in {<<>>, sHost},
        port \in {<<>>, <<" ">>, s587, <<"0">>, <<"-", "1">>, <<"5", "x">>},
        from \in {<<>>, sFromGood, sFromBad},
        rcpt \in {<<>>, sRcptGood, sRcptBad},
        tz \in {<<>>, sNewYork, sZoneBad},
        statuses \in {<<>>, sNope \o <<",">> \o sFAILURE \o <<",">> \o sWorse},
        bs \in BadgeSettings}

\* Environments that vary the trigger and status rules.
EnvsRules ==
    {Environ(host, s587, <<"k">>, <<" ", "b", "@", "x">>, sRcptGood, <<>>, ids, names, statuses,
             bs[1], bs[2]) :
        host \in {<<>>, sHost},
        ids \in {<<>>, s123 \o <<",">> \o s456, <<"*">>, s123 \o <<",", " ", ",">> \o s456},
        names \in {<<>>, sTrigger1 \o <<",">> \o sTrigger2, sGlob1,
                   sBadGlob \o <<",">> \o sMainGlob, <<"*">>},
        statuses \in {<<>>, sSUCCESS, sFAILURE \o <<" ", ",", " ">> \o sTIMEOUT},
        bs \in BadgeSettings}

\* List settings run over every string of at most MaxLen characters.
MaxLen == 4

ListChars == {"a", "A", ",", " ", sVT}

ListStrings == UNION {[1..k -> ListChars] : k \in 0..MaxLen}

\* Environments that vary one list-valued setting over ListStrings, with
\* valid delivery settings.
EnvsLists ==
    {Environ(sHost, <<>>, <<>>, sFromGood, sRcptGood, <<>>, ids, <<>>, <<>>, sBucket, <<"1">>) :
        ids \in ListStrings}
    \cup
    {Environ(sHost, <<>>, <<>>, sFromGood, sRcptGood, <<>>, <<>>, names, <<>>, sBucket, <<"1">>) :
        names \in ListStrings}

Envs == EnvsSettings \cup EnvsRules

NoSubstitutions ==
    [TRIGGER_NAME |-> <<>>, BRANCH_NAME |-> <<>>, COMMIT_SHA |-> <<>>, REPO_NAME |-> <<>>]

sLogUrl == <<"h", "t", "t", "p", "s", ":", "/", "/", "x", "/", "l">>
sId     == <<"1", "2", "-", "3", "4">>
sCommit == <<"a", "b", "c", "1", "2", "3">>

\* 1 Jan 1970 19:42:31 UTC, which is 14:42:31 of the same day in New York.
tStart == 19 * Hour + 42 * Minute + 31 * Second

\* 2 Jan 1970 03:04:05.5 UTC, which is 1 Jan 22:04:05 in New York.
tNight == Day + 3 * Hour + 4 * Minute + 5 * Second + 500

\* The values of time.Now() when the message is built.
Nows == {tStart + 4 * Hour, tNight}

\* The builds a message can decode to. A substitution is <<>> when the key is
\* absent and <<v>> when it is present with value v; a timestamp is <<>> when
\* it is nil and <<t>> when it is set.
Builds ==
    {[Id             |-> sId,
      ProjectId      |-> <<"p">>,
      BuildTriggerId |-> id,
      Status         |-> st,
      LogUrl         |-> sLogUrl,
      StartTime      |-> <<tStart>>,
      FinishTime     |-> <<tStart + 22 * Minute + 20 * Second>>,
      Substitutions  |-> [NoSubstitutions EXCEPT !.TRIGGER_NAME = tn]] :
        id \in {<<>>, s123},
        st \in 0..MaxStatus,
        tn \in {<<>>, <<sTrigger1>>, <<sBadTrigger>>, <<sMainDeploy>>, <<sRelease1>>}}

\* Start and finish times: nil ones, equal ones, the durations of
\* TestFormatDuration, a fraction of a second, a day change, a finish before
\* the start.
BuildTimes ==
    {<<<<>>, <<>>>>, <<<<tStart>>, <<>>>>, <<<<tStart>>, <<tStart>>>>,
     <<<<tStart>>, <<tStart + 500>>>>,
     <<<<tStart>>, <<tStart + 53 * Second>>>>,
     <<<<tStart>>, <<tStart + 23 * Minute>>>>,
     <<<<tStart>>, <<tStart + 23 * Minute + 10 * Second>>>>,
     <<<<tStart>>, <<tStart + 3 * Hour + 10 * Second>>>>,
     <<<<tStart>>, <<tStart + 3 * Hour + 23 * Minute>>>>,
     <<<<tStart>>, <<tStart + 3 * Hour + 23 * Minute + 10 * Second + 999>>>>,
     <<<<tStart + 30 * Second>>, <<tNight>>>>,
     <<<<tNight>>, <<tStart>>>>}

\* Builds that vary what the renderers show: the substitutions, the
\* identifiers and the times.
BuildsRender ==
    {[Id             |-> id,
      ProjectId      |-> <<"p", "j">>,
      BuildTriggerId |-> tid,
      Status         |-> st,
      LogUrl         |-> sLogUrl,
      StartTime      |-> <<tStart>>,
      FinishTime     |-> <<tStart + 22 * Minute + 20 * Second>>,
      Substitutions  |-> [TRIGGER_NAME |-> tn, BRANCH_NAME |-> br,
                          COMMIT_SHA |-> co, REPO_NAME |-> re]] :
        id \in {sId, <<"1", "2", "3", "4">>},
        tid \in {<<>>, s123},
        st \in {Build_SUCCESS, Build_FAILURE},
        tn \in {<<>>, <<<<>>>>, <<sTrigger1>>},
        br \in {<<>>, <<<<"m", "a", "i", "n">>>>},
        co \in {<<>>, <<<<>>>>, <<sCommit>>},
        re \in {<<>>, <<<<"r", "e", "p", "o">>>>}}
    \cup
    {[Id             |-> sId,
      ProjectId      |-> <<"p", "j">>,
      BuildTriggerId |-> tid,
      Status         |-> st,
      LogUrl         |-> <<>>,
      StartTime      |-> se[1],
      FinishTime     |-> se[2],
      Substitutions  |-> [NoSubstitutions EXCEPT !.COMMIT_SHA = <<sCommit>>]] :
        tid \in {<<>>, s123},
        st \in {Build_SUCCESS, Build_FAILURE, Build_TIMEOUT},
        se \in BuildTimes}

\* Valid environments for the renderers: both kinds of time zone, reports
\* on and off, with and without SMTP authentication.
EnvsRender ==
    {Environ(sHost, s587, user, sFromGood, sRcptGood, tz, <<>>, <<>>,
             sSUCCESS \o <<",">> \o sFAILURE, sBucket, reports) :
        user \in {<<>>, <<"k">>},
        tz \in {<<>>, sNewYork},
        reports \in {<<"0">>, <<"t", "r", "u", "e">>}}

-----------------------------------------------------------------------------
(* watch.go: WatchBuilds, one action per step *)

\* WatchBuilds is invoked with an environment of E.
InitWith(E) ==
    /\ env \in E
    /\ pc = "loadConfig"
    /\ cfg = <<>>
    /\ build = <<>>
    /\ emailErr = NotRun
    /\ badgeErr = NotRun
    /\ ret = NotRun
    /\ logs = <<>>
    /\ sent = <<>>
    /\ objects = <<>>
    /\ calls = <<>>
    /\ flags = <<>>
    /\ files = [badge |-> <<>>, report |-> <<>>]
    /\ exit = <<>>

Init == InitWith(Envs)

\* Faulty variant of WatchBuilds_loadConfig: the payload is decoded whatever
\* loadConfig returned.
WatchBuilds_loadConfig_continues ==
    /\ pc = "loadConfig"
    /\ calls' = Append(calls, "loadConfig")
    /\ \E r \in loadConfig(env) :
          /\ cfg' = r.cfg
          /\ ret' = IF r.err # nil THEN <<"failed loading config: ">> \o r.err ELSE ret
          /\ pc' = "Unmarshal"
    /\ UNCHANGED <<env, build, emailErr, badgeErr, logs, sent, objects>>
    /\ UNCHANGED <<flags, files, exit>>

\* cfg, err := loadConfig(); if err != nil { return fmt.Errorf(...) }
WatchBuilds_loadConfig ==
    /\ pc = "loadConfig"
    /\ calls' = Append(calls, "loadConfig")
    /\ \E r \in loadConfig(env) :
          /\ cfg' = r.cfg
          /\ IF r.err # nil
             THEN /\ ret' = <<"failed loading config: ">> \o r.err
                  /\ pc' = "done"
             ELSE /\ ret' = ret
                  /\ pc' = "Unmarshal"
    /\ UNCHANGED <<env, build, emailErr, badgeErr, logs, sent, objects>>
    /\ UNCHANGED <<flags, files, exit>>

\* protojson Unmarshal of msg.Data: it fails, or yields a build of B.
Unmarshal(B) ==
    /\ pc = "Unmarshal"
    /\ calls' = Append(calls, "Unmarshal")
    /\ \/ /\ ret' = <<"proto: syntax error">>
          /\ pc' = "done"
          /\ UNCHANGED <<build, logs>>
       \/ \E b \in B :
             /\ build' = <<b>>
             /\ logs' = Append(logs, <<"Got message about build ">> \o b.Id
                                      \o <<" with status ">> \o StatusString(b.Status))
             /\ pc' = "checkEmail"
             /\ UNCHANGED ret
    /\ UNCHANGED <<env, cfg, emailErr, badgeErr, sent, objects>>
    /\ UNCHANGED <<flags, files, exit>>

WatchBuilds_Unmarshal == Unmarshal(Builds)

\* Faulty variant of WatchBuilds_checkEmail: a rejection is logged and
\* sendEmail is called all the same.
WatchBuilds_checkEmail_noGate ==
    /\ pc = "checkEmail"
    /\ calls' = Append(calls, "checkEmail")
    /\ emailErr' = checkEmail(cfg[1], build[1])
    /\ logs' = IF emailErr' # nil
               THEN Append(logs, <<"Not sending email: ">> \o emailErr')
               ELSE logs
    /\ pc' = "sendEmail"
    /\ UNCHANGED <<env, cfg, build, badgeErr, ret, sent, objects>>
    /\ UNCHANGED <<flags, files, exit>>

\* if err := cfg.checkEmail(&build); err != nil { log.Print(...) }
WatchBuilds_checkEmail ==
    /\ pc = "checkEmail"
    /\ calls' = Append(calls, "checkEmail")
    /\ emailErr' = checkEmail(cfg[1], build[1])
    /\ IF emailErr' # nil
       THEN /\ logs' = Append(logs, <<"Not sending email: ">> \o emailErr')
            /\ pc' = "checkBadge"
       ELSE /\ logs' = logs
            /\ pc' = "sendEmail"
    /\ UNCHANGED <<env, cfg, build, badgeErr, ret, sent, objects>>
    /\ UNCHANGED <<flags, files, exit>>

\* Faulty variant of WatchBuilds_sendEmail: an error of sendEmail is returned.
WatchBuilds_sendEmail_returnsError ==
    /\ pc = "sendEmail"
    /\ calls' = Append(calls, "sendEmail")
    /\ \E now \in Nows, bnd \in Boundaries, fail \in EmailFailures :
          LET r == sendEmail(cfg[1], build[1], now, bnd, fail)
          IN  /\ logs' = logs \o r.logs
              /\ sent' = IF r.err = nil THEN sent \o r.mail ELSE sent
              /\ ret' = IF r.err # nil THEN r.err ELSE ret
              /\ pc' = IF r.err # nil THEN "done" ELSE "checkBadge"
    /\ UNCHANGED <<env, cfg, build, emailErr, badgeErr, objects>>
    /\ UNCHANGED <<flags, files, exit>>

\* else if err := sendEmail(ctx, cfg, &build); err != nil { log.Print(...) }
WatchBuilds_sendEmail ==
    /\ pc = "sendEmail"
    /\ calls' = Append(calls, "sendEmail")
    /\ \E now \in Nows, bnd \in Boundaries, fail \in EmailFailures :
          LET r == sendEmail(cfg[1], build[1], now, bnd, fail)
          IN  IF r.panic
              THEN /\ pc' = "panic"
                   /\ UNCHANGED <<logs, sent>>
              ELSE /\ logs' = logs \o r.logs
                              \o (IF r.err # nil
                                  THEN <<<<"Failed sending email: ">> \o r.err>>
                                  ELSE <<>>)
                   /\ sent' = IF r.err = nil THEN sent \o r.mail ELSE sent
                   /\ pc' = "checkBadge"
    /\ UNCHANGED <<env, cfg, build, emailErr, badgeErr, ret, objects>>
    /\ UNCHANGED <<flags, files, exit>>

\* if err := cfg.checkBadge(&build); err != nil { log.Print(...) }
WatchBuilds_checkBadge ==
    /\ pc = "checkBadge"
    /\ calls' = Append(calls, "checkBadge")
    /\ badgeErr' = checkBadge(cfg[1], build[1])
    /\ IF badgeErr' # nil
       THEN /\ logs' = Append(logs, <<"Not writing badge: ">> \o badgeErr')
            /\ pc' = "return"
       ELSE /\ logs' = logs
            /\ pc' = "writeBadge"
    /\ UNCHANGED <<env, cfg, build, emailErr, ret, sent, objects>>
    /\ UNCHANGED <<flags, files, exit>>

\* else if err := writeBadge(ctx, cfg, &build); err != nil { log.Print(...) }
WatchBuilds_writeBadge ==
    /\ pc = "writeBadge"
    /\ calls' = Append(calls, "writeBadge")
    /\ \E fail \in StorageFailures :
          LET r == writeBadge(cfg[1], build[1], fail)
          IN  /\ logs' = logs \o r.logs
                         \o (IF r.err # nil
                             THEN <<<<"Failed writing badge: ">> \o r.err>>
                             ELSE <<>>)
              /\ objects' = objects \o r.objects
    /\ pc' = "return"
    /\ UNCHANGED <<env, cfg, build, emailErr, badgeErr, ret, sent>>
    /\ UNCHANGED <<flags, files, exit>>

\* return nil
WatchBuilds_return ==
    /\ pc = "return"
    /\ ret' = nil
    /\ pc' = "done"
    /\ UNCHANGED <<env, cfg, build, emailErr, badgeErr, logs, sent, objects, calls>>
    /\ UNCHANGED <<flags, files, exit>>

Next ==
    \/ WatchBuilds_loadConfig
    \/ WatchBuilds_Unmarshal
    \/ WatchBuilds_checkEmail
    \/ WatchBuilds_sendEmail
    \/ WatchBuilds_checkBadge
    \/ WatchBuilds_writeBadge
    \/ WatchBuilds_return

Spec == Init /\ [][Next]_vars

\* WatchBuilds on the environments of EnvsRender and the builds of BuildsRender.
InitRender == InitWith(EnvsRender)

WatchBuilds_UnmarshalRender == Unmarshal(BuildsRender)

NextRender ==
    \/ WatchBuilds_loadConfig
    \/ WatchBuilds_UnmarshalRender
    \/ WatchBuilds_checkEmail
    \/ WatchBuilds_sendEmail
    \/ WatchBuilds_checkBadge
    \/ WatchBuilds_writeBadge
    \/ WatchBuilds_return

SpecRender == InitRender /\ [][NextRender]_vars

\* loadConfig alone, on the environments of EnvsLists.
InitListVar == InitWith(EnvsLists)

SpecListVar == InitListVar /\ [][WatchBuilds_loadConfig]_vars

-----------------------------------------------------------------------------
(* email_test.go: TestFormatDuration, formatDuration on one duration *)

\* The durations have up to MaxHours hours.
MaxHours == 3

\* Durations of whole hours, minutes and seconds, and with a fraction of a
\* second: those of TestFormatDuration among them, and some of a day and
\* more.
Durations ==
    {h * Hour + m * Minute + sec * Second + ms :
        h \in (0..MaxHours) \cup {24, 25, 100}, m \in {0, 1, 23, 59},
        sec \in {0, 10, 53, 59}, ms \in {0, 999}}

InitFormatDuration ==
    /\ env \in {Environ(<<>>, <<>>, <<>>, <<>>, <<>>, <<>>, <<>>, <<>>, <<>>, <<>>, <<>>)}
    /\ pc = "formatDuration"
    /\ cfg = <<>>
    /\ build = <<>>
    /\ emailErr = NotRun
    /\ badgeErr = NotRun
    /\ ret = NotRun
    /\ logs = <<>>
    /\ sent = <<>>
    /\ objects = <<>>
    /\ calls = <<>>
    /\ flags \in [d : Durations]
    /\ files = [badge |-> <<>>, report |-> <<>>]
    /\ exit = <<>>

\* got := formatDuration(tc.d), got being kept as a line of the log.
TestFormatDuration ==
    /\ pc = "formatDuration"
    /\ calls' = Append(calls, "formatDuration")
    /\ logs' = Append(logs, formatDuration(flags.d))
    /\ pc' = "done"
    /\ UNCHANGED <<env, cfg, build, emailErr, badgeErr, ret, sent, objects, flags, files, exit>>

SpecFormatDuration == InitFormatDuration /\ [][TestFormatDuration]_vars

-----------------------------------------------------------------------------
(* buildTag and buildSub: the value of a field in a build's tags and substitutions *)

\* Names to pass to buildTag.
triggerNameTag == <<"t", "r", "i", "g", "g", "e", "r", "-", "n", "a", "m", "e">>
commitTag      == <<"c", "o", "m", "m", "i", "t">>

\* Faulty variant of buildTag: the last tag with the prefix wins, and its
\* value is trimmed.
buildTag_lastTrimmed(b, name, def) ==
    LET pre  == name \o <<"-">>
        hits == {i \in 1..Len(b.Tags) :
                    /\ Len(b.Tags[i]) >= Len(pre)
                    /\ SubSeq(b.Tags[i], 1, Len(pre)) = pre}
    IN  IF hits = {} THEN def
        ELSE LET i == CHOOSE i \in hits : \A j \in hits : j <= i
             IN  TrimSpace(SubSeq(b.Tags[i], Len(pre) + 1, Len(b.Tags[i])))

\* buildTag: the rest of the first tag of b.Tags that has the prefix
\* name + "-" (strings.HasPrefix), def when no tag has it.
buildTag(b, name, def) ==
    LET pre  == name \o <<"-">>
        hits == {i \in 1..Len(b.Tags) :
                    /\ Len(b.Tags[i]) >= Len(pre)
                    /\ SubSeq(b.Tags[i], 1, Len(pre)) = pre}
    IN  IF hits = {} THEN def
        ELSE LET i == CHOOSE i \in hits : \A j \in hits : i <= j
             IN  SubSeq(b.Tags[i], Len(pre) + 1, Len(b.Tags[i]))

\* A build has at most MaxTags tags in the model.
MaxTags == 2

\* Tags with and without the prefixes of the two names: with an empty rest,
\* with a rest that holds "-", spaces and capitals, with the name in another
\* case, with the name not at the start, and the bare name.
TagLists ==
    LET c == commitTag
        t == triggerNameTag
        tags == {c \o <<"-", "a", "B">>, c \o <<"-">>, c, c \o <<"-", " ", "x", "-", "y", " ">>,
                 <<"C">> \o Tail(c) \o <<"-", "z">>, <<"x">> \o c \o <<"-", "1">>,
                 t \o <<"-", "T", "1">>, t \o <<"-">>, t \o <<"-", "c", "o", "m", "m", "i", "t", "-", "q">>}
    IN  UNION {[1..k -> tags] : k \in 0..MaxTags}

InitBuildTag ==
    /\ env \in {Environ(<<>>, <<>>, <<>>, <<>>, <<>>, <<>>, <<>>, <<>>, <<>>, <<>>, <<>>)}
    /\ pc = "buildTag"
    /\ cfg = <<>>
    /\ build = <<>>
    /\ emailErr = NotRun
    /\ badgeErr = NotRun
    /\ ret = NotRun
    /\ logs = <<>>
    /\ sent = <<>>
    /\ objects = <<>>
    /\ calls = <<>>
    /\ flags \in [Tags : TagLists,
                  sub  : {<<>>, <<<<>>>>, <<<<" ", "A", "b", " ">>>>},
                  name : {"trigger", "commit"},
                  def  : {<<>>, sUnknown}]
    /\ files = [badge |-> <<>>, report |-> <<>>]
    /\ exit = <<>>

\* buildTag(build, triggerNameTag, def), buildTag(build, commitTag, def) and
\* buildSub(build, triggerNameSub, def), buildSub(build, commitSub, def) as
\* BuildEmail calls them: the two results are kept as lines of the log.
BuildEmail_lookup ==
    /\ pc = "buildTag"
    /\ calls' = calls \o <<"buildTag", "buildSub">>
    /\ LET tag == IF flags.name = "trigger" THEN triggerNameTag ELSE commitTag
           key == IF flags.name = "trigger" THEN triggerNameSub ELSE commitSub
           b   == [Tags |-> flags.Tags,
                   Substitutions |-> [NoSubstitutions EXCEPT ![key] = flags.sub]]
       IN  logs' = <<buildTag(b, tag, flags.def), buildSub(b, key, flags.def)>>
    /\ pc' = "done"
    /\ UNCHANGED <<env, cfg, build, emailErr, badgeErr, ret, sent, objects, flags, files, exit>>

SpecBuildTag == InitBuildTag /\ [][BuildEmail_lookup]_vars

-----------------------------------------------------------------------------
(* test_badge/main.go: the program that renders a badge (and a report) to files *)

\* The values of the -status flag: the names of the enum and a wrong one.
StatusFlags == Build_Status_value \cup {sNope}

\* The steps of writeFile that can fail.
FileFailures == {"none", "OpenFile", "Close"}

\* writeFile: opens (creates, truncates) the file, passes it to fn, whose
\* result is r, and closes it: [err, file].
writeFile(old, r, fail) ==
    IF fail = "OpenFile" THEN [err |-> <<"open: permission denied">>, file |-> old]
    ELSE IF r.err # nil THEN [err |-> r.err, file |-> <<r.out>>]
    ELSE IF fail = "Close" THEN [err |-> <<"close: input/output error">>, file |-> <<r.out>>]
    ELSE [err |-> nil, file |-> <<r.out>>]

InitTestBadge ==
    /\ env \in {Environ(<<>>, <<>>, <<>>, <<>>, <<>>, <<>>, <<>>, <<>>, <<>>, <<>>, <<>>)}
    /\ pc = "main"
    /\ cfg = <<>>
    /\ build = <<>>
    /\ emailErr = NotRun
    /\ badgeErr = NotRun
    /\ ret = NotRun
    /\ logs = <<>>
    /\ sent = <<>>
    /\ objects = <<>>
    /\ calls = <<>>
    /\ flags \in [report : BOOLEAN, status : StatusFlags, nargs : 0..2]
    /\ files \in [badge : {<<>>, << << <<"old">> >> >>}, report : {<<>>}]
    /\ exit = <<>>

\* main up to the construction of the build: flag.Parse, the argument
\* count, the lookup of -status.
TestBadge_main ==
    /\ pc = "main"
    /\ calls' = Append(calls, "main")
    /\ IF flags.nargs # 1
       THEN /\ logs' = Append(logs, <<"Usage: ", "test_badge", " [flags] <output-path>">>)
            /\ exit' = <<2>>
            /\ pc' = "done"
            /\ build' = build
       ELSE IF flags.status \notin Build_Status_value
       THEN /\ logs' = Append(logs, <<"Invalid build status ">> \o Quote(flags.status))
            /\ exit' = <<2>>
            /\ pc' = "done"
            /\ build' = build
       ELSE /\ \E now \in Nows :
                  build' = <<[Id             |-> <<>>,
                              ProjectId      |-> <<>>,
                              BuildTriggerId |-> <<>>,
                              Status         |-> CHOOSE n \in DOMAIN Build_Status_name :
                                                    Build_Status_name[n] = flags.status,
                              LogUrl         |-> <<>>,
                              StartTime      |-> <<now - 3 * Minute - 41 * Second>>,
                              FinishTime     |-> <<now>>,
                              Substitutions  |-> NoSubstitutions]>>
            /\ pc' = "CreateBadge"
            /\ UNCHANGED <<logs, exit>>
    /\ UNCHANGED <<env, cfg, emailErr, badgeErr, ret, sent, objects, flags, files>>

\* writeFile(flag.Arg(0), CreateBadge); on an error the program exits with 1.
TestBadge_CreateBadge ==
    /\ pc = "CreateBadge"
    /\ calls' = Append(calls, "CreateBadge")
    /\ \E fail \in FileFailures :
          LET r == writeFile(files.badge, CreateBadge(build[1]), fail)
          IN  /\ files' = [files EXCEPT !.badge = r.file]
              /\ IF r.err # nil
                 THEN /\ logs' = Append(logs, <<"Failed writing badge:", " ">> \o r.err)
                      /\ exit' = <<1>>
                      /\ pc' = "done"
                 ELSE IF flags.report
                 THEN /\ pc' = "CreateReport"
                      /\ UNCHANGED <<logs, exit>>
                 ELSE /\ exit' = <<0>>
                      /\ pc' = "done"
                      /\ logs' = logs
    /\ UNCHANGED <<env, cfg, build, emailErr, badgeErr, ret, sent, objects, flags>>

\* if *report { writeFile(p, CreateReport) }
TestBadge_CreateReport ==
    /\ pc = "CreateReport"
    /\ calls' = Append(calls, "CreateReport")
    /\ \E fail \in FileFailures :
          LET r == writeFile(files.report, CreateReport(build[1]), fail)
          IN  /\ files' = [files EXCEPT !.report = r.file]
              /\ IF r.err # nil
                 THEN /\ logs' = Append(logs, <<"Failed writing report:", " ">> \o r.err)
                      /\ exit' = <<1>>
                 ELSE /\ exit' = <<0>>
                      /\ logs' = logs
    /\ pc' = "done"
    /\ UNCHANGED <<env, cfg, build, emailErr, badgeErr, ret, sent, objects, flags>>

NextTestBadge ==
    \/ TestBadge_main
    \/ TestBadge_CreateBadge
    \/ TestBadge_CreateReport

SpecTestBadge == InitTestBadge /\ [][NextTestBadge]_vars

-----------------------------------------------------------------------------
(* Properties of checkEmail *)

\* checkEmail has run in WatchBuilds (on cfg[1] and build[1]).
EmailChecked == emailErr # NotRun

\* The value of the TRIGGER_NAME substitution of b, empty when it is absent.
TriggerNameOf(b) ==
    IF b.Substitutions.TRIGGER_NAME = <<>> THEN <<>> ELSE b.Substitutions.TRIGGER_NAME[1]

\* The delivery settings of c pass the checks at the head of checkEmail.
SettingsPresent(c) ==
    /\ c.emailHostname # <<>>
    /\ c.emailPort > 0
    /\ c.emailFrom # <<>>
    /\ c.emailRecipients # <<>>

\* Status in the allowed set, and no trigger restriction or an ID match or a
\* literal name match or a glob match.
RulesAccept(c, b) ==
    /\ StatusString(b.Status) \in c.emailBuildStatuses
    /\ \/ c.emailBuildTriggerIDs = {} /\ c.emailBuildTriggerNames = {}
       \/ b.BuildTriggerId \in c.emailBuildTriggerIDs
       \/ TriggerNameOf(b) \in c.emailBuildTriggerNames
       \/ \E p \in c.emailBuildTriggerNames :
             Match(p, TriggerNameOf(b)) = [m |-> TRUE, err |-> FALSE]

\* C1, as stated: for every Configuration and build, checkEmail returns nil
\* iff the status is allowed and the trigger rules accept the build.
C1_AsStated ==
    EmailChecked => (emailErr = nil <=> RulesAccept(cfg[1], build[1]))

\* C1, amended: checkEmail returns nil iff the four delivery settings are
\* present and the status is allowed and the trigger rules accept the build
\* (either allow-set matching alone is sufficient when both are configured).
C1_EligibleIff ==
    EmailChecked =>
        (emailErr = nil <=> (SettingsPresent(cfg[1]) /\ RulesAccept(cfg[1], build[1])))

\* Both allow-sets are configured, only the ID set matches, and email is sent.
C1_Witness ==
    /\ EmailChecked
    /\ emailErr = nil
    /\ cfg[1].emailBuildTriggerIDs # {}
    /\ cfg[1].emailBuildTriggerNames # {}
    /\ build[1].BuildTriggerId \in cfg[1].emailBuildTriggerIDs
    /\ TriggerNameOf(build[1]) \notin cfg[1].emailBuildTriggerNames
    /\ \A p \in cfg[1].emailBuildTriggerNames : ~Match(p, TriggerNameOf(build[1])).m

\* C2: checkEmail rejects with a distinct reason for an empty hostname, a
\* port <= 0, an unset from-address and an empty recipient list, checked in
\* this order and before the trigger and status checks.
C2_SettingsOrder ==
    EmailChecked =>
        LET c == cfg[1]
        IN  /\ c.emailHostname = <<>> => emailErr = <<"EMAIL_HOSTNAME", " not set">>
            /\ (c.emailHostname # <<>> /\ c.emailPort <= 0) =>
                  emailErr = <<"EMAIL_PORT", " not set">>
            /\ (c.emailHostname # <<>> /\ c.emailPort > 0 /\ c.emailFrom = <<>>) =>
                  emailErr = <<"EMAIL_FROM", " not set">>
            /\ (c.emailHostname # <<>> /\ c.emailPort > 0 /\ c.emailFrom # <<>>
                  /\ c.emailRecipients = <<>>) =>
                  emailErr = <<"EMAIL_RECIPIENTS", " not set">>
            /\ SettingsPresent(c) =>
                  emailErr \notin {<<"EMAIL_HOSTNAME", " not set">>, <<"EMAIL_PORT", " not set">>,
                                   <<"EMAIL_FROM", " not set">>, <<"EMAIL_RECIPIENTS", " not set">>}

\* Port, from-address and recipients are all missing and the status is not
\* allowed either: the port is the reason given.
C2_Witness ==
    /\ EmailChecked
    /\ cfg[1].emailHostname # <<>>
    /\ cfg[1].emailPort <= 0
    /\ cfg[1].emailFrom = <<>>
    /\ cfg[1].emailRecipients = <<>>
    /\ StatusString(build[1].Status) \notin cfg[1].emailBuildStatuses
    /\ emailErr = <<"EMAIL_PORT", " not set">>

\* C3: when a trigger allow-set is configured, checkEmail rejects every build
\* that has an empty trigger ID and no TRIGGER_NAME substitution.
C3_UntriggeredRejected ==
    (/\ EmailChecked
     /\ cfg[1].emailBuildTriggerIDs # {} \/ cfg[1].emailBuildTriggerNames # {}
     /\ build[1].BuildTriggerId = <<>>
     /\ build[1].Substitutions.TRIGGER_NAME = <<>>)
        => emailErr # nil

\* C4: entries of the trigger-name set are shell globs: "main-*" accepts
\* "main-deploy" and rejects "release-1", "*1" accepts "trigger-1" and rejects
\* "bad-trigger"; a pattern with a matching error is a non-match and the other
\* patterns are still tried; trigger IDs are only compared literally.
C4_Globs ==
    (EmailChecked /\ SettingsPresent(cfg[1])
        /\ StatusString(build[1].Status) \in cfg[1].emailBuildStatuses) =>
        LET ids   == cfg[1].emailBuildTriggerIDs
            names == cfg[1].emailBuildTriggerNames
            name  == TriggerNameOf(build[1])
        IN  /\ (ids = {} /\ sMainGlob \in names /\ name = sMainDeploy) => emailErr = nil
            /\ (ids = {} /\ names = {sBadGlob, sMainGlob} /\ name = sRelease1) =>
                  emailErr = triggerError(build[1])
            /\ (ids = {} /\ sGlob1 \in names /\ name = sTrigger1) => emailErr = nil
            /\ (ids = {} /\ names = {sGlob1} /\ name = sBadTrigger) =>
                  emailErr = triggerError(build[1])
            /\ (ids = {} /\ names = {sBadGlob, sMainGlob} /\ name = <<>>) =>
                  emailErr = triggerError(build[1])
            /\ (names = {} /\ ids # {} /\ build[1].BuildTriggerId \notin ids) =>
                  emailErr = triggerError(build[1])

\* The name set holds a malformed pattern and "main-*"; "main-deploy" is accepted.
C4_Witness ==
    /\ EmailChecked
    /\ emailErr = nil
    /\ cfg[1].emailBuildTriggerIDs = {}
    /\ cfg[1].emailBuildTriggerNames = {sBadGlob, sMainGlob}
    /\ Match(sBadGlob, sMainDeploy).err
    /\ TriggerNameOf(build[1]) = sMainDeploy

\* The value of a setting is unset or only whitespace.
Unset(v) == TrimSpace(v) = <<>>

\* C5: the status check compares the status's name with the allowed set; with
\* EMAIL_BUILD_STATUSES unset the set is {FAILURE, INTERNAL_ERROR, TIMEOUT},
\* so with valid delivery settings and no trigger restriction exactly these
\* three statuses are accepted; any other status is rejected with the
\* status-mismatch reason, also when the trigger check passed.
C5_StatusCheck ==
    /\ (cfg # <<>> /\ Unset(env.EMAIL_BUILD_STATUSES)) =>
          cfg[1].emailBuildStatuses = {sFAILURE, sINTERNAL_ERROR, sTIMEOUT}
    /\ (EmailChecked /\ SettingsPresent(cfg[1])) =>
          LET c == cfg[1]
              b == build[1]
          IN  /\ (/\ Unset(env.EMAIL_BUILD_STATUSES)
                  /\ c.emailBuildTriggerIDs = {}
                  /\ c.emailBuildTriggerNames = {}) =>
                    /\ emailErr = nil <=>
                          b.Status \in {Build_FAILURE, Build_INTERNAL_ERROR, Build_TIMEOUT}
                    /\ emailErr # nil => emailErr = statusError(b)
              /\ (/\ StatusString(b.Status) \notin c.emailBuildStatuses
                  /\ \/ b.BuildTriggerId \in c.emailBuildTriggerIDs
                     \/ TriggerNameOf(b) \in c.emailBuildTriggerNames) =>
                    emailErr = statusError(b)

\* The trigger ID is in the configured ID set, the status is SUCCESS and the
\* default statuses apply: rejected for the status.
C5_Witness ==
    /\ EmailChecked
    /\ Unset(env.EMAIL_BUILD_STATUSES)
    /\ build[1].BuildTriggerId \in cfg[1].emailBuildTriggerIDs
    /\ build[1].Status = Build_SUCCESS
    /\ emailErr = statusError(build[1])

-----------------------------------------------------------------------------
(* Properties of checkBadge *)

BadgeChecked == badgeErr # NotRun

\* C6: checkBadge returns nil iff the bucket is non-empty, the trigger ID is
\* non-empty and the status is SUCCESS, FAILURE, INTERNAL_ERROR or TIMEOUT;
\* otherwise the reason is that of the first failing check in this order.
C6_BadgeIff ==
    BadgeChecked =>
        LET c == cfg[1]
            b == build[1]
            statusOk == StatusString(b.Status) \in {sSUCCESS, sFAILURE, sINTERNAL_ERROR, sTIMEOUT}
        IN  /\ badgeErr = nil <=>
                  (c.badgeBucket # <<>> /\ b.BuildTriggerId # <<>> /\ statusOk)
            /\ c.badgeBucket = <<>> => badgeErr = <<"BADGE_BUCKET", " not set">>
            /\ (c.badgeBucket # <<>> /\ b.BuildTriggerId = <<>>) =>
                  badgeErr = <<"build not started by a trigger">>
            /\ (c.badgeBucket # <<>> /\ b.BuildTriggerId # <<>> /\ ~statusOk) =>
                  badgeErr = <<"non-badge status ">> \o Quote(StatusString(b.Status))

\* A bucket is set, the build has no trigger ID and no badge status: the
\* missing trigger is the reason given.
C6_Witness ==
    /\ BadgeChecked
    /\ cfg[1].badgeBucket # <<>>
    /\ build[1].BuildTriggerId = <<>>
    /\ build[1].Status \notin DOMAIN badgeStatuses
    /\ badgeErr = <<"build not started by a trigger">>

-----------------------------------------------------------------------------
(* Properties of loadConfig *)

\* WatchBuilds returned the error of loadConfig.
ConfigError == ret # NotRun /\ ret # nil /\ ret[1] = "failed loading config: "

\* The value of setting n in environment e is invalid.
Invalid(e, n) ==
    LET v == TrimSpace(e[n])
    IN  CASE n = "EMAIL_PORT" -> v # <<>> /\ Atoi(v).err # nil
          [] n = "EMAIL_FROM" -> v # <<>> /\ ~ParseAddress(v).ok
          [] n = "EMAIL_RECIPIENTS" -> v # <<>> /\ ~ParseAddressList(v).ok
          [] n = "EMAIL_TIME_ZONE" -> v # <<>> /\ v \notin KnownZones
          [] n = "EMAIL_BUILD_STATUSES" ->
                v # <<>> /\ \E st \in Range(listRegexpSplit(v)) : st \notin Build_Status_value
          [] OTHER -> FALSE

\* C7: configuration construction fails atomically: when a setting is invalid
\* loadConfig returns an error and no Config, WatchBuilds returns, and no
\* check, send or write ever runs; a Config that is returned is complete.
C7_AtomicFailure ==
    pc # "loadConfig" =>
        /\ (\E n \in DOMAIN env : Invalid(env, n)) =>
              /\ cfg = <<>>
              /\ ConfigError
              /\ pc = "done"
              /\ build = <<>> /\ emailErr = NotRun /\ badgeErr = NotRun
              /\ sent = <<>> /\ objects = <<>>
        /\ ConfigError => cfg = <<>>
        /\ cfg # <<>> =>
              /\ \A n \in DOMAIN env : ~Invalid(env, n)
              /\ cfg[1].emailTimeZone # <<>>
              /\ ~Unset(env.EMAIL_FROM) => cfg[1].emailFrom # <<>>
              /\ ~Unset(env.EMAIL_RECIPIENTS) => cfg[1].emailRecipients # <<>>
        /\ (emailErr # NotRun \/ badgeErr # NotRun \/ sent # <<>> \/ objects # <<>>) =>
              cfg # <<>>

\* The from-address parsed but the time zone is unknown: nothing is returned.
C7_Witness ==
    /\ pc = "done"
    /\ ConfigError
    /\ cfg = <<>>
    /\ ~Unset(env.EMAIL_FROM) /\ ~Invalid(env, "EMAIL_FROM")
    /\ ~Invalid(env, "EMAIL_PORT") /\ ~Invalid(env, "EMAIL_RECIPIENTS")
    /\ Invalid(env, "EMAIL_TIME_ZONE")

\* C8: every configuration error names the offending setting.
C8_ErrorNamesSetting ==
    ConfigError => \E n \in DOMAIN env : Invalid(env, n) /\ n \in Range(ret)

-----------------------------------------------------------------------------
(* Properties of listVar *)

\* The maximal comma-free stretches <<i, j>> of t (j = i - 1 for an empty one).
Stretches(t) ==
    {ij \in (1..(Len(t) + 1)) \X (0..Len(t)) :
        /\ ij[1] <= ij[2] + 1
        /\ ij[1] = 1 \/ t[ij[1] - 1] = ","
        /\ ij[2] = Len(t) \/ t[ij[2] + 1] = ","
        /\ \A k \in ij[1]..ij[2] : t[k] # ","}

\* The comma-separated items of v, each with the whitespace around it
\* removed, as a set; no item at all when v is blank.
ItemSet(v) ==
    IF Unset(v) THEN {}
    ELSE {TrimSpace(SubSeq(v, ij[1], ij[2])) : ij \in Stretches(v)}

\* C10: a list-valued setting parses to the set of its comma-separated items
\* with the whitespace around commas and at both ends removed (duplicates and
\* order are immaterial, items are case-sensitive); an unset or blank value
\* gives a set that restricts nothing.
C10_ListParsing ==
    cfg # <<>> =>
        /\ cfg[1].emailBuildTriggerIDs = ItemSet(env.EMAIL_BUILD_TRIGGER_IDS)
        /\ cfg[1].emailBuildTriggerNames = ItemSet(env.EMAIL_BUILD_TRIGGER_NAMES)
        /\ cfg[1].emailBuildStatuses =
              IF Unset(env.EMAIL_BUILD_STATUSES) THEN ItemSet(sDefaultStatuses)
              ELSE ItemSet(env.EMAIL_BUILD_STATUSES)
        /\ (/\ Unset(env.EMAIL_BUILD_TRIGGER_IDS)
            /\ Unset(env.EMAIL_BUILD_TRIGGER_NAMES)
            /\ SettingsPresent(cfg[1])) =>
              \A b \in Builds :
                  checkEmail(cfg[1], b) = nil <=>
                      StatusString(b.Status) \in cfg[1].emailBuildStatuses

-----------------------------------------------------------------------------
(* C11: a configuration error or a decoding error ends the invocation *)

\* The functions of calls, as a set.
Called == {calls[i] : i \in 1..Len(calls)}

\* WatchBuilds has returned an error.
ReturnedError == ret # NotRun /\ ret # nil

\* protojson's Unmarshal was called and left no build.
DecodeFailed == "Unmarshal" \in Called /\ build = <<>>

\* C11: in every run of WatchBuilds in which loadConfig fails, WatchBuilds
\* returns an error (the one of loadConfig, wrapped) and checkEmail,
\* checkBadge, sendEmail and writeBadge are never executed: the run is over
\* after the one call of loadConfig. The same holds when decoding the
\* payload fails: the run is over after loadConfig and Unmarshal, with an
\* error returned. No mail is sent and no object is written in either case.
C11_FailFast ==
    /\ (pc # "loadConfig" /\ cfg = <<>>) =>
          /\ pc = "done"
          /\ ConfigError
          /\ calls = <<"loadConfig">>
    /\ DecodeFailed =>
          /\ pc = "done"
          /\ ReturnedError
          /\ calls = <<"loadConfig", "Unmarshal">>
    /\ (ReturnedError \/ DecodeFailed \/ (pc # "loadConfig" /\ cfg = <<>>)) =>
          /\ pc = "done"
          /\ Called \cap {"checkEmail", "checkBadge", "sendEmail", "writeBadge"} = {}
          /\ emailErr = NotRun
          /\ badgeErr = NotRun
          /\ sent = <<>>
          /\ objects = <<>>

\* loadConfig failed on an environment whose EMAIL_PORT is not a number, and
\* the run is over.
C11_Witness ==
    /\ pc = "done"
    /\ cfg = <<>>
    /\ ConfigError
    /\ calls = <<"loadConfig">>
    /\ TrimSpace(env["EMAIL_PORT"]) # <<>>

\* The payload could not be decoded, and the run is over.
C11_DecodeWitness ==
    /\ pc = "done"
    /\ cfg # <<>>
    /\ DecodeFailed
    /\ ReturnedError

-----------------------------------------------------------------------------
(* C12: the email pipeline and the badge pipeline are independent *)

\* A line of the log starts with prefix.
LogHas(prefix) == \E i \in 1..Len(logs) : logs[i] # <<>> /\ logs[i][1] = prefix

\* sendEmail was called and no mail left: rendering or sending failed.
EmailFailed == "sendEmail" \in Called /\ sent = <<>>

\* writeBadge was called and an object it had to write is missing.
BadgeFailed ==
    /\ "writeBadge" \in Called
    /\ Len(objects) < (IF cfg[1].badgeReports THEN 2 ELSE 1)

\* The calls of a run that went through both pipelines, given what the two
\* filters returned.
BothPipelines ==
    <<"loadConfig", "Unmarshal", "checkEmail">>
    \o (IF emailErr = nil THEN <<"sendEmail">> ELSE <<>>)
    \o <<"checkBadge">>
    \o (IF badgeErr = nil THEN <<"writeBadge">> ELSE <<>>)

\* The run of WatchBuilds is over with nil returned after the badge pipeline ran.
BadgePipelineDone ==
    /\ pc = "done"
    /\ ret = nil
    /\ calls = BothPipelines

\* C12: once loadConfig and the decoding succeeded, checkBadge (and then
\* writeBadge if checkBadge returned nil) is executed whatever became of the
\* email (rejected, sent, failed while rendering or sending) and WatchBuilds
\* returns nil: the run is at one of the steps of WatchBuilds that follow
\* the decoding (sendEmail does not panic, nothing is returned early) and,
\* when it is over, the calls made are those of both pipelines and nil is
\* returned. A failure of sendEmail is logged as "Failed sending email:
\* ..." and a failure of writeBadge as "Failed writing badge: ...".
C12_Independent ==
    build # <<>> =>
       /\ pc \in {"checkEmail", "sendEmail", "checkBadge", "writeBadge", "return", "done"}
       /\ ret \in {NotRun, nil}
       /\ EmailFailed => LogHas("Failed sending email: ")
       /\ BadgeFailed => LogHas("Failed writing badge: ")
       /\ pc \in {"return", "done"} => calls = BothPipelines
       /\ pc = "done" => BadgePipelineDone

\* The email failed and the badge was written all the same.
C12_Witness ==
    /\ BadgePipelineDone
    /\ EmailFailed
    /\ LogHas("Failed sending email: ")
    /\ ~BadgeFailed
    /\ objects # <<>>

\* The badge failed after the email was sent.
C12_BadgeFailedWitness ==
    /\ BadgePipelineDone
    /\ BadgeFailed
    /\ LogHas("Failed writing badge: ")
    /\ sent # <<>>

-----------------------------------------------------------------------------
(* C13: the filters gate the renderers *)

\* line is a line of the log.
Logged(line) == \E i \in 1..Len(logs) : logs[i] = line

\* C13: sendEmail is called only if checkEmail returned nil for the
\* Configuration and the build of the run, and writeBadge only if checkBadge
\* returned nil. A rejection is logged with its reason ("Not sending email:
\* <reason>", "Not writing badge: <reason>"), the step it gates is skipped
\* (not called, no mail sent, no object written), and WatchBuilds does not
\* return an error because of it.
C13_FiltersGate ==
    /\ "sendEmail" \in Called =>
          /\ emailErr = nil
          /\ checkEmail(cfg[1], build[1]) = nil
    /\ "writeBadge" \in Called =>
          /\ badgeErr = nil
          /\ checkBadge(cfg[1], build[1]) = nil
    /\ (EmailChecked /\ emailErr # nil) =>
          /\ emailErr = checkEmail(cfg[1], build[1])
          /\ Logged(<<"Not sending email: ">> \o emailErr)
          /\ "sendEmail" \notin Called
          /\ sent = <<>>
          /\ ~LogHas("Failed sending email: ")
          /\ ret \in {NotRun, nil}
          /\ pc = "done" => ret = nil
    /\ (BadgeChecked /\ badgeErr # nil) =>
          /\ badgeErr = checkBadge(cfg[1], build[1])
          /\ Logged(<<"Not writing badge: ">> \o badgeErr)
          /\ "writeBadge" \notin Called
          /\ objects = <<>>
          /\ ~LogHas("Failed writing badge: ")
          /\ ret \in {NotRun, nil}
          /\ pc = "done" => ret = nil

\* Both filters rejected the build: two lines of the log say why, nothing
\* was sent or written, and nil was returned.
C13_Witness ==
    /\ pc = "done"
    /\ ret = nil
    /\ emailErr \notin {NotRun, nil}
    /\ badgeErr \notin {NotRun, nil}
    /\ Logged(<<"Not sending email: ">> \o emailErr)
    /\ Logged(<<"Not writing badge: ">> \o badgeErr)
    /\ calls = <<"loadConfig", "Unmarshal", "checkEmail", "checkBadge">>

\* The email filter accepted the build and sendEmail was called.
C13_SentWitness ==
    /\ pc = "done"
    /\ "sendEmail" \in Called
    /\ sent # <<>>
    /\ badgeErr \notin {NotRun, nil}

-----------------------------------------------------------------------------
(* C14: CreateBadge renders the four statuses of its table and no other *)

\* The text of the right segment for the statuses that have a badge.
ExpectedText ==
    (sSUCCESS :> "success") @@ (sFAILURE :> "failure")
    @@ (sINTERNAL_ERROR :> "error") @@ (sTIMEOUT :> "timeout")

\* The lines of the image file, none when the file does not exist.
BadgeFile == IF files.badge = <<>> THEN <<>> ELSE files.badge[1]

\* t is one of the pieces of line.
HasPiece(line, t) == \E i \in 1..Len(line) : line[i] = t

OpenFailed == Logged(<<"Failed writing badge:", " ", "open: permission denied">>)

CloseFailed == Logged(<<"Failed writing badge:", " ", "close: input/output error">>)

\* C14: CreateBadge succeeds exactly for SUCCESS, FAILURE, INTERNAL_ERROR and
\* TIMEOUT: the output is the whole template, its right segment shows
\* "success", "failure", "error" or "timeout" in the foreground colour of
\* that status on its background colour, and the four pairs of colours
\* differ. For every other status the error is "no badge info defined for
\* status <name>" and nothing was written: the output file the program
\* opened for CreateBadge is empty.
C14_BadgeTable ==
    /\ \A m, n \in DOMAIN badgeStatuses :
          m # n => <<badgeStatuses[m].FG, badgeStatuses[m].BG>>
                   # <<badgeStatuses[n].FG, badgeStatuses[n].BG>>
    /\ "CreateBadge" \in Called =>
          LET name == StatusString(build[1].Status)
          IN  IF name \in DOMAIN ExpectedText
              THEN /\ ~OpenFailed =>
                         /\ Len(BadgeFile) = 18
                         /\ BadgeFile[1][1] = "<svg xmlns=\"http://www.w3.org/2000/svg\" width=\"90\" height=\"20\">"
                         /\ BadgeFile[18] = <<"</svg>">>
                         /\ HasPiece(BadgeFile[8], ExpectedText[name])
                         /\ HasPiece(BadgeFile[8], badgeStatuses[build[1].Status].FG)
                         /\ HasPiece(BadgeFile[6], badgeStatuses[build[1].Status].BG)
                         /\ HasPiece(BadgeFile[7], badgeStatuses[build[1].Status].BG)
                         /\ \A t \in {ExpectedText[n] : n \in DOMAIN ExpectedText} :
                               t # ExpectedText[name] =>
                                  \A i \in 1..18 : ~HasPiece(BadgeFile[i], t)
                   /\ (~OpenFailed /\ ~CloseFailed) =>
                         /\ ~LogHas("Failed writing badge:")
                         /\ "CreateReport" \notin Called => exit # <<1>>
              ELSE /\ exit = <<1>>
                   /\ pc = "done"
                   /\ "CreateReport" \notin Called
                   /\ ~OpenFailed =>
                         /\ Logged(<<"Failed writing badge:", " ",
                                     "no badge info defined for status ">> \o Quote(name))
                         /\ files.badge = << <<>> >>
                   /\ OpenFailed => files.badge \in {<<>>, << << <<"old">> >> >>}

\* test_badge -status CANCELLED: CreateBadge returned its error, the file is
\* empty and the exit status is 1.
C14_Witness ==
    /\ "CreateBadge" \in Called
    /\ flags.status = sCANCELLED
    /\ exit = <<1>>
    /\ files.badge = << <<>> >>
    /\ Logged(<<"Failed writing badge:", " ", "no badge info defined for status ">>
              \o Quote(sCANCELLED))

\* test_badge -status INTERNAL_ERROR: the badge says "error".
C14_RenderedWitness ==
    /\ "CreateBadge" \in Called
    /\ flags.status = sINTERNAL_ERROR
    /\ exit = <<0>>
    /\ Len(BadgeFile) = 18
    /\ HasPiece(BadgeFile[8], "error")

-----------------------------------------------------------------------------
(* C15: what the badge depends on *)

\* The badge object of the run has been written.
BadgeWritten == objects # <<>> /\ objects[1].ContentType = "image/svg+xml"

\* The build that has the status of b and no other field, like the one of
\* TestCreateBadge.
StatusOnly(b) ==
    [Id |-> <<>>, ProjectId |-> <<>>, BuildTriggerId |-> <<>>, Status |-> b.Status,
     LogUrl |-> <<>>, StartTime |-> <<>>, FinishTime |-> <<>>,
     Substitutions |-> NoSubstitutions]

\* C15 as stated: any two builds with the same status yield the same
\* output of CreateBadge, whatever their other fields are: the badge of the
\* run is the one of the build that has its status and nothing else.
C15_AsStated ==
    BadgeWritten =>
       CreateBadge(StatusOnly(build[1])) = [err |-> nil, out |-> objects[1].content]

\* C15: any two builds with the same status and the same start time yield
\* the same output of CreateBadge, whatever their id, project, trigger,
\* end time, log URL and substitutions are: the badge written for the build
\* of the run is the output of CreateBadge for the build that has its
\* status and start time and nothing else, hence for every build with this
\* status and start time.
C15_StatusAndStart ==
    BadgeWritten =>
       CreateBadge([StatusOnly(build[1]) EXCEPT !.StartTime = build[1].StartTime])
          = [err |-> nil, out |-> objects[1].content]

\* A badge was written for a build that has an id, a project, an end time,
\* a log URL and substitutions, and another build of the model has its
\* status and start time but another id and end time.
C15_Witness ==
    /\ BadgeWritten
    /\ build[1].Id # <<>>
    /\ build[1].ProjectId # <<>>
    /\ build[1].LogUrl # <<>>
    /\ build[1].FinishTime # <<>>
    /\ build[1].Substitutions # NoSubstitutions
    /\ \E b2 \in BuildsRender :
          /\ b2.Status = build[1].Status
          /\ b2.StartTime = build[1].StartTime
          /\ b2.Id # build[1].Id
          /\ b2.FinishTime # build[1].FinishTime

-----------------------------------------------------------------------------
(* C16: what the report depends on *)

\* The report object of the run has been written.
ReportWritten ==
    /\ Len(objects) = 2
    /\ objects[2].ContentType = "text/html; charset=UTF-8"

\* C16: any two builds that agree on status, start time and end time yield
\* the same output of CreateReport, whatever their id, project, trigger,
\* log URL and substitutions are, and whatever the Configuration is (the
\* time zone of the emails included): the report written in the run, under
\* its Configuration, is the output of CreateReport for the build that has
\* the status and the two times of the run's build and nothing else, with
\* the times in UTC.
C16_ReportMinimal ==
    ReportWritten =>
       /\ CreateReport([StatusOnly(build[1]) EXCEPT !.StartTime = build[1].StartTime,
                                                    !.FinishTime = build[1].FinishTime])
             = [err |-> nil, out |-> objects[2].content]
       /\ objects[2].content[22] =
             <<"  <tr><td class=\"left\">Start</td><td>">>
             \o HTMLEscape(FormatRFC1123Z(AsTime(build[1].StartTime), <<sUTC>>))
             \o <<"</td></tr>">>

\* A report was written under a Configuration whose emails use the time of
\* New York, for a build that has an id, a project, a trigger name and a
\* log URL.
C16_Witness ==
    /\ ReportWritten
    /\ cfg[1].emailTimeZone # <<sUTC>>
    /\ build[1].Id # <<>>
    /\ build[1].ProjectId # <<>>
    /\ build[1].LogUrl # <<>>
    /\ build[1].Substitutions[triggerNameSub] # <<>>

-----------------------------------------------------------------------------
(* C17: formatDuration *)

\* The hours, minutes and seconds of d with their suffixes, those that are
\* zero left out.
Components(d) ==
    LET h == d \div Hour
        m == (d % Hour) \div Minute
        sec == (d % Minute) \div Second
    IN  (IF h > 0 THEN FormatInt(h) \o <<"h">> ELSE <<>>)
        \o (IF m > 0 THEN FormatInt(m) \o <<"m">> ELSE <<>>)
        \o (IF sec > 0 THEN FormatInt(sec) \o <<"s">> ELSE <<>>)

\* The result of formatDuration on the duration d has been computed and is r.
Formatted(d, r) == pc = "done" /\ flags.d = d /\ logs = <<r>>

\* C17: on a duration that is not negative formatDuration yields one
\* result: the hours, minutes and seconds in this order with the suffixes
\* h, m, s, every component that is zero left out, and "0s" when all three
\* are zero. 3h23m10s gives "3h23m10s", 3h23m "3h23m", 3h10s "3h10s", 23m
\* "23m", 53s "53s" and 0 "0s".
C17_FormatDuration ==
    pc = "done" =>
       /\ flags.d >= 0
       /\ Len(logs) = 1
       /\ logs[1] = IF Components(flags.d) = <<>> THEN <<"0", "s">> ELSE Components(flags.d)
       /\ flags.d = 3 * Hour + 23 * Minute + 10 * Second =>
             logs[1] = <<"3", "h", "2", "3", "m", "1", "0", "s">>
       /\ flags.d = 3 * Hour + 23 * Minute => logs[1] = <<"3", "h", "2", "3", "m">>
       /\ flags.d = 3 * Hour + 10 * Second => logs[1] = <<"3", "h", "1", "0", "s">>
       /\ flags.d = 23 * Minute => logs[1] = <<"2", "3", "m">>
       /\ flags.d = 53 * Second => logs[1] = <<"5", "3", "s">>
       /\ flags.d = 0 => logs[1] = <<"0", "s">>

\* formatDuration has formatted 3h10s, whose minutes are zero.
C17_Witness == Formatted(3 * Hour + 10 * Second, <<"3", "h", "1", "0", "s">>)

\* formatDuration has formatted 999 ms as "0s".
C17_ZeroWitness == Formatted(999, <<"0", "s">>)

-----------------------------------------------------------------------------
(* C18: the Subject header *)

\* An email was sent in the run.
EmailSent == sent # <<>>

\* The header lines of the message that was sent, in order.
SentHeader(i) == sent[1].msg[i]

\* The part of id before its first "-", all of id when it has none.
FirstSegment(id) ==
    IF \E k \in 1..Len(id) : id[k] = "-"
    THEN SubSeq(id, 1, (CHOOSE k \in 1..Len(id) :
                           id[k] = "-" /\ \A j \in 1..(k - 1) : id[j] # "-") - 1)
    ELSE id

\* "Subject: [<projectId>] <t> <status> (build <S>)" for the build b.
SubjectOf(b, t) ==
    <<"Subject", ": ", "[">> \o b.ProjectId \o <<"]", " ">> \o t \o <<" ">>
    \o StatusString(b.Status) \o <<" (build ">> \o FirstSegment(b.Id) \o <<")">>

\* C18 as stated: the subject shows the trigger name, or the trigger ID
\* when no trigger name is available.
C18_AsStated ==
    EmailSent =>
       SentHeader(3) = SubjectOf(build[1],
                                 IF TriggerNameOf(build[1]) # <<>>
                                 THEN TriggerNameOf(build[1])
                                 ELSE build[1].BuildTriggerId)

\* C18: the Subject header of every email is "[<projectId>] <T> <status>
\* (build <S>)" where T is the value of the TRIGGER_NAME substitution, empty
\* when that value is empty, or the text "[unknown]" when the build has no
\* TRIGGER_NAME substitution, whatever its trigger ID is; the status is the
\* name of the status and S is the part of the build ID before its first
\* "-" (the whole ID when it has none).
C18_Subject ==
    EmailSent =>
       SentHeader(3) = SubjectOf(build[1],
                                 IF build[1].Substitutions[triggerNameSub] = <<>>
                                 THEN sUnknown
                                 ELSE build[1].Substitutions[triggerNameSub][1])

\* An email was sent for a build that a trigger started and that has no
\* TRIGGER_NAME substitution: the subject says "[unknown]".
C18_Witness ==
    /\ EmailSent
    /\ build[1].BuildTriggerId = s123
    /\ build[1].Substitutions[triggerNameSub] = <<>>
    /\ build[1].Id = sId
    /\ SentHeader(3) = <<"Subject", ": ", "[", "p", "j", "]", " ">> \o sUnknown
                       \o <<" ">> \o StatusString(build[1].Status)
                       \o <<" (build ", "1", "2", ")">>

\* An email was sent for a build whose ID has no "-" and whose TRIGGER_NAME
\* substitution is empty.
C18_EmptyNameWitness ==
    /\ EmailSent
    /\ build[1].Substitutions[triggerNameSub] = << <<>> >>
    /\ build[1].Id = <<"1", "2", "3", "4">>
    /\ FirstSegment(build[1].Id) = <<"1", "2", "3", "4">>

-----------------------------------------------------------------------------
(* C19: the conditional lines of the two parts of an email *)

\* The value of the substitution name of b, empty when b has none.
SubValue(b, name) ==
    IF b.Substitutions[name] = <<>> THEN <<>> ELSE b.Substitutions[name][1]

\* The lines of the message that was sent which start with label.
LinesOf(label) ==
    {i \in 1..Len(sent[1].msg) : sent[1].msg[i] # <<>> /\ sent[1].msg[i][1] = label}

\* One line of the message starts with label, and it is label followed by rest.
OneLine(label, rest) ==
    LET found == LinesOf(label)
    IN  /\ Cardinality(found) = 1
        /\ \A i \in found : sent[1].msg[i] = <<label>> \o rest

\* The line of label is there with rest if v is not empty, and there is no
\* line of label if v is empty.
LineIff(v, label, rest) == IF v # <<>> THEN OneLine(label, rest) ELSE LinesOf(label) = {}

\* What the trigger line shows: the trigger name, the trigger ID when the
\* name is empty.
TriggerShown(b) ==
    IF SubValue(b, triggerNameSub) # <<>> THEN SubValue(b, triggerNameSub)
    ELSE b.BuildTriggerId

\* C19: in the text part and in the HTML part of an email the trigger line
\* (row) is there if and only if the trigger ID is not empty, and it shows
\* the trigger name, or the trigger ID when the name is empty; the repo,
\* commit and branch lines are there if and only if their substitution has
\* a value that is not empty, and show that value; the status line and the
\* start and end lines, the latter with the duration, are always there.
C19_ConditionalLines ==
    EmailSent =>
       LET b   == build[1]
           tz  == cfg[1].emailTimeZone
           st  == FormatRFC1123Z(AsTime(b.StartTime), tz)
           en  == FormatRFC1123Z(AsTime(b.FinishTime), tz)
           dur == formatDuration(AsTime(b.FinishTime) - AsTime(b.StartTime))
       IN  /\ LineIff(b.BuildTriggerId, "Trigger:   ", TriggerShown(b))
           /\ LineIff(SubValue(b, repoSub), "Repo:      ", SubValue(b, repoSub))
           /\ LineIff(SubValue(b, commitSub), "Commit:    ", SubValue(b, commitSub))
           /\ LineIff(SubValue(b, branchSub), "Branch:    ", SubValue(b, branchSub))
           /\ OneLine("Status:    ", StatusString(b.Status))
           /\ OneLine("Start:     ", st)
           /\ OneLine("End:       ", en \o <<" (">> \o dur \o <<")">>)
           /\ LineIff(b.BuildTriggerId, "  <tr><td class=\"left\">Trigger</td><td><a href=\"",
                      <<"https://console.cloud.google.com/cloud-build/triggers/edit/">>
                      \o b.BuildTriggerId \o <<"\">">> \o TriggerShown(b)
                      \o <<"</a></td></tr>">>)
           /\ LineIff(SubValue(b, repoSub), "  <tr><td class=\"left\">Repo</td><td>",
                      SubValue(b, repoSub) \o <<"</td></tr>">>)
           /\ LineIff(SubValue(b, commitSub), "  <tr><td class=\"left\">Commit</td><td>",
                      SubValue(b, commitSub) \o <<"</td></tr>">>)
           /\ LineIff(SubValue(b, branchSub), "  <tr><td class=\"left\">Branch</td><td>",
                      SubValue(b, branchSub) \o <<"</td></tr>">>)
           /\ OneLine("  <tr><td class=\"left\">Status</td><td>",
                      StatusString(b.Status) \o <<"</td></tr>">>)
           /\ OneLine("  <tr><td class=\"left\">Start</td><td>", st \o <<"</td></tr>">>)
           /\ OneLine("  <tr><td class=\"left\">End</td><td>",
                      en \o <<" (">> \o dur \o <<")</td></tr>">>)

\* An email was sent for a build with the commit "abc123", no branch and no
\* repo, started by a trigger without a name: both parts have the commit
\* line with "abc123" and the trigger line with the trigger ID, and neither
\* has a branch or a repo line.
C19_Witness ==
    /\ EmailSent
    /\ SubValue(build[1], commitSub) = sCommit
    /\ build[1].Substitutions[branchSub] = <<>>
    /\ build[1].Substitutions[repoSub] = <<>>
    /\ build[1].BuildTriggerId = s123
    /\ SubValue(build[1], triggerNameSub) = <<>>
    /\ OneLine("Commit:    ", sCommit)
    /\ OneLine("  <tr><td class=\"left\">Commit</td><td>", sCommit \o <<"</td></tr>">>)
    /\ OneLine("Trigger:   ", s123)
    /\ LinesOf("Branch:    ") = {}
    /\ LinesOf("Repo:      ") = {}
    /\ LinesOf("  <tr><td class=\"left\">Branch</td><td>") = {}
    /\ LinesOf("  <tr><td class=\"left\">Repo</td><td>") = {}

\* An email was sent for a build that no trigger started: no trigger line.
C19_NoTriggerWitness ==
    /\ EmailSent
    /\ build[1].BuildTriggerId = <<>>
    /\ LinesOf("Trigger:   ") = {}
    /\ SubValue(build[1], branchSub) # <<>>
    /\ SubValue(build[1], repoSub) # <<>>

-----------------------------------------------------------------------------
(* C20: the structure of the message *)

\* The lines of the message that are line.
LinesEqual(line) == {i \in 1..Len(sent[1].msg) : sent[1].msg[i] = line}

\* What follows label on its line, without the last n pieces of the line:
\* <<>> without such a line, <<value>> with one.
Field(label, n) ==
    LET found == LinesOf(label)
    IN  IF found = {} THEN <<>>
        ELSE LET l == sent[1].msg[CHOOSE i \in found : TRUE]
             IN  <<SubSeq(l, 2, Len(l) - n)>>

\* The link on the line of label: <<>> without such a line, else the
\* target of the link (up to the piece that closes the href attribute) and
\* the text it shows.
Link(label) ==
    LET found == LinesOf(label)
    IN  IF found = {} THEN <<>>
        ELSE LET l == sent[1].msg[CHOOSE i \in found : TRUE]
                 k == CHOOSE j \in 1..Len(l) : l[j] = "\">"
             IN  <<[target |-> SubSeq(l, 2, k - 1), text |-> SubSeq(l, k + 1, Len(l) - 1)]>>

LinkTarget(label) == IF Link(label) = <<>> THEN <<>> ELSE <<Link(label)[1].target>>

LinkText(label) == IF Link(label) = <<>> THEN <<>> ELSE <<Link(label)[1].text>>

\* C20: a message returned by BuildEmail has the header lines From, To,
\* Subject, Date, MIME-Version, Content-Type in this order and an empty
\* line, then exactly two parts, the first of type text/plain;
\* charset=UTF-8 and the second of type text/html; charset=UTF-8, then the
\* closing boundary. Every field has the same value in both parts (build
\* ID, trigger, status, repo, commit, branch, start, end with duration, log
\* URL), and is in both or in neither. If executing the template of either
\* part fails, BuildEmail returns an error and no message, and nothing is
\* handed to the mail server.
C20_MessageStructure ==
    /\ "sendEmail" \in Called =>
          \A now \in Nows, bnd \in Boundaries, fail \in {"text", "HTML", "Close"} :
             LET m == BuildEmail(cfg[1], build[1], now, bnd, fail)
             IN  m.msg = <<>> /\ m.err # nil
    /\ (LogHas("Failed sending email: ") /\ ~LogHas("Sending email to ")) => sent = <<>>
    /\ EmailSent =>
          LET M  == sent[1].msg
              bs == LinesEqual(<<"--", M[6][4]>>)
              i1 == CHOOSE i \in bs : \A j \in bs : i <= j
              i2 == CHOOSE i \in bs : \A j \in bs : j <= i
          IN  /\ Len(sent) = 1
              /\ [i \in 1..6 |-> M[i][1]]
                    = <<"From", "To", "Subject", "Date", "MIME-Version", "Content-Type">>
              /\ \A i \in 1..6 : M[i][2] = ": "
              /\ M[7] = <<>>
              /\ Cardinality(bs) = 2
              /\ i1 = 8
              /\ M[i1 + 1] = <<"Content-Type", ": ", "text/plain; charset=UTF-8">>
              /\ M[i1 + 2] = <<>>
              /\ M[i2 + 1] = <<"Content-Type", ": ", "text/html; charset=UTF-8">>
              /\ M[i2 + 2] = <<>>
              /\ LinesEqual(<<"--", M[6][4], "--">>) = {Len(M)}
              /\ M[6][4] \in Boundaries
              /\ LinesOf("Content-Type") = {6, i1 + 1, i2 + 1}
              /\ LinesOf("Build:     ") \subseteq (i1 + 3)..(i2 - 1)
              /\ LinesOf("Log:       ") \subseteq (i1 + 3)..(i2 - 1)
              /\ LinesOf("<!DOCTYPE html>") = {i2 + 3}
              /\ M[Len(M) - 1] = <<"</html>">>
              /\ Field("Build:     ", 0)
                    = LinkText("  <tr><td class=\"left\">Build</td><td><a href=\"")
              /\ Field("Log:       ", 0)
                    = LinkTarget("  <tr><td class=\"left\">Build</td><td><a href=\"")
              /\ Field("Trigger:   ", 0)
                    = LinkText("  <tr><td class=\"left\">Trigger</td><td><a href=\"")
              /\ Field("Status:    ", 0) = Field("  <tr><td class=\"left\">Status</td><td>", 1)
              /\ Field("Repo:      ", 0) = Field("  <tr><td class=\"left\">Repo</td><td>", 1)
              /\ Field("Commit:    ", 0) = Field("  <tr><td class=\"left\">Commit</td><td>", 1)
              /\ Field("Branch:    ", 0) = Field("  <tr><td class=\"left\">Branch</td><td>", 1)
              /\ Field("Start:     ", 0) = Field("  <tr><td class=\"left\">Start</td><td>", 1)
              /\ Field("End:       ", 1) = Field("  <tr><td class=\"left\">End</td><td>", 1)
              /\ Field("Status:    ", 0) # <<>>
              /\ Field("Build:     ", 0) # <<>>
              /\ Field("End:       ", 1) # <<>>

\* An email with a trigger line, a commit line and a repo line in both of
\* its parts was sent.
C20_Witness ==
    /\ EmailSent
    /\ Len(sent[1].msg) > 40
    /\ Field("Trigger:   ", 0) = <<sTrigger1>>
    /\ Field("Commit:    ", 0) = <<sCommit>>
    /\ Field("Repo:      ", 0) # <<>>
    /\ Field("Log:       ", 0) = <<sLogUrl>>

\* The template of the HTML part failed: the error is logged and no email
\* was handed to the mail server.
C20_FailedWitness ==
    /\ Logged(<<"Failed sending email: ", "building email: ", "HTML: ",
                "template: execution failed">>)
    /\ sent = <<>>
    /\ pc = "done"


(***************************************************************************)
(* C21: determinism of the renderers                                       *)
(***************************************************************************)

\* C21 as stated: a second invocation of BuildEmail with the event and the
\* Configuration of the run returns the bytes of the message that was sent,
\* whatever the clock reads and whatever boundary the multipart writer
\* picks in the second invocation.
C21_AsStated ==
    EmailSent =>
       \A now \in Nows, bnd \in Boundaries :
          BuildEmail(cfg[1], build[1], now, bnd, "none").msg = sent[1].msg

\* C21: CreateBadge and CreateReport are deterministic: the objects written
\* are what a second invocation with the same build returns. BuildEmail is
\* deterministic apart from the instant of the call and the boundary of the
\* multipart writer: a second invocation with the same event, Configuration,
\* instant and boundary returns the bytes of the message that was sent, and
\* an invocation at another instant or with another boundary returns a
\* message of as many lines that differs from it in no line but the Date
\* header, the Content-Type header that names the boundary, and the
\* boundary lines. The message is compared when sendEmail has just returned
\* (it is not changed afterwards).
C21_Deterministic ==
    /\ BadgeWritten => objects[1].content = CreateBadge(build[1]).out
    /\ ReportWritten => objects[2].content = CreateReport(build[1]).out
    /\ (EmailSent /\ pc = "checkBadge") =>
          LET M == sent[1].msg
          IN  /\ \E now \in Nows :
                    BuildEmail(cfg[1], build[1], now, M[6][4], "none").msg = M
              /\ \A now \in Nows, bnd \in Boundaries :
                    LET N == BuildEmail(cfg[1], build[1], now, bnd, "none").msg
                    IN  /\ Len(N) = Len(M)
                        /\ \A i \in 1..Len(M) :
                              N[i] # M[i] =>
                                 \/ i \in {4, 6}
                                 \/ (M[i] # <<>> /\ M[i][1] = "--")

\* An email was sent with the second boundary at night, and the badge and
\* the report of the same build were written.
C21_Witness ==
    /\ EmailSent
    /\ sent[1].msg[6][4] = "BOUNDARY-B"
    /\ sent[1].msg[4] = <<"Date", ": ">> \o FormatRFC1123Z(tNight, cfg[1].emailTimeZone)
    /\ BadgeWritten
    /\ ReportWritten


(***************************************************************************)
(* C22: the lookup of a field in a build's metadata                        *)
(***************************************************************************)

\* s starts with pre.
StartsWith(s, pre) == \E n \in 0..Len(s) : SubSeq(s, 1, n) = pre

\* The name with which buildTag was called for the input, and "-".
TagPrefix ==
    (IF flags.name = "trigger" THEN triggerNameTag ELSE commitTag) \o <<"-">>

\* C22: the lookup returns the stored value unchanged (not trimmed, in its
\* own case) and the default exactly when no entry matches. With the
\* substitutions, the value of the key is returned whenever the key is
\* present, an empty value included, and the default only when the key is
\* absent. With the tags, the result is what follows fieldName + "-" in the
\* first tag, in list order, that starts with fieldName + "-", and the
\* default when no tag starts with it.
C22_Lookup ==
    "buildTag" \in Called =>
       LET tags == flags.Tags
           hit(i) == StartsWith(tags[i], TagPrefix)
       IN  /\ flags.sub # <<>> => logs[2] = flags.sub[1]
           /\ flags.sub = <<>> => logs[2] = flags.def
           /\ (\A i \in 1..Len(tags) : ~hit(i)) => logs[1] = flags.def
           /\ \A i \in 1..Len(tags) :
                 (hit(i) /\ \A j \in 1..(i - 1) : ~hit(j))
                    => TagPrefix \o logs[1] = tags[i]

\* Two tags start with "commit-": the value of the first is returned with
\* its spaces and its "-", and the empty value of the substitution is
\* returned, not the default.
C22_Witness ==
    /\ "buildTag" \in Called
    /\ flags.name = "commit"
    /\ Len(flags.Tags) = 2
    /\ StartsWith(flags.Tags[1], TagPrefix)
    /\ StartsWith(flags.Tags[2], TagPrefix)
    /\ logs[1] = <<" ", "x", "-", "y", " ">>
    /\ flags.sub = <<<<>>>>
    /\ flags.def = sUnknown
    /\ logs[2] = <<>>

\* No tag starts with the prefix and the key is absent: both lookups return
\* the default.
C22_DefaultWitness ==
    /\ "buildTag" \in Called
    /\ flags.Tags # <<>>
    /\ flags.sub = <<>>
    /\ flags.def = sUnknown
    /\ logs = <<sUnknown, sUnknown>>


(***************************************************************************)
(* C23: the geometry of the badge                                          *)
(***************************************************************************)

\* The number written in line between its first piece and its last k pieces,
\* -1 when what is written there is not a decimal number.
Written(line, k) ==
    LET ds == SubSeq(line, 2, Len(line) - k)
    IN  IF ds # <<>> /\ \A i \in 1..Len(ds) : IsDigit(ds[i]) THEN DecVal(ds) ELSE -1

\* CreateBadge wrote a badge to the file of test_badge.
BadgeRendered ==
    /\ "CreateBadge" \in Called
    /\ ~OpenFailed
    /\ build[1].Status \in DOMAIN badgeStatuses

\* C23: for every status of the badge table the badge is 90 wide and 20 high,
\* the width of the right segment is 52 and the width of the left segment,
\* which is where the right segment starts, is 90 minus it, 38; both are
\* positive; the text of each segment is placed at the integer half of the
\* width of its segment, 19 and 26.
C23_Geometry ==
    /\ \A n \in DOMAIN badgeStatuses : badgeStatuses[n].Width = 52
    /\ BadgeRendered =>
          LET B      == BadgeFile
              leftX  == Written(B[4], 5)
              leftW  == Written(B[5], 1)
              rightW == Written(B[6], 3)
              rightX == Written(B[8], 5)
          IN  /\ B[1] = <<"<svg xmlns=\"http://www.w3.org/2000/svg\" width=\"90\" height=\"20\">">>
              /\ B[3][1] = "    <rect width=\"90\" height=\"20\" rx=\"3\" fill=\""
              /\ B[4][1] = "    <text x=\""
              /\ B[5][1] = "    <g transform=\"translate("
              /\ B[6][1] = "      <rect width=\""
              /\ B[6][Len(B[6]) - 2] = "\" height=\"20\" rx=\"3\" fill=\""
              /\ B[8][1] = "      <text x=\""
              /\ rightW = 52
              /\ leftW = 90 - rightW
              /\ leftW = 38
              /\ leftW > 0 /\ rightW > 0
              /\ leftW + rightW = 90
              /\ 2 * leftX \in {leftW, leftW - 1}
              /\ 2 * rightX \in {rightW, rightW - 1}
              /\ leftX = 19
              /\ rightX = 26

\* test_badge -status TIMEOUT wrote a badge whose left text is at 19 and
\* whose right segment starts at 38.
C23_Witness ==
    /\ BadgeRendered
    /\ flags.status = sTIMEOUT
    /\ Written(BadgeFile[4], 5) = 19
    /\ Written(BadgeFile[5], 1) = 38
    /\ Written(BadgeFile[8], 5) = 26


(***************************************************************************)
(* C24: the order of the objects that writeBadge writes                    *)
(***************************************************************************)

\* The name of the object of the build of the run with the extension ext.
ObjectName(ext) == build[1].BuildTriggerId \o ext

\* C24: the first object writeBadge writes and closes is "<triggerId>.svg"
\* of type image/svg+xml; "<triggerId>.html" of type "text/html;
\* charset=UTF-8" is written after it, to the same bucket and with the same
\* cache directive, exactly if reports are enabled and rendering, writing
\* and closing the badge succeeded (and it stays only if its own close
\* succeeded). There is never a report without its badge before it, and for
\* a build without trigger ID writeBadge returns "no build trigger ID" and
\* writes no object, whichever storage step would fail.
C24_WriteOrder ==
    /\ Len(objects) <= 2
    /\ objects # <<>> =>
          /\ build[1].BuildTriggerId # <<>>
          /\ objects[1].name = ObjectName(<<".", "s", "v", "g">>)
          /\ objects[1].ContentType = "image/svg+xml"
          /\ objects[1].bucket = cfg[1].badgeBucket
    /\ Len(objects) = 2 =>
          /\ objects[2].name = ObjectName(<<".", "h", "t", "m", "l">>)
          /\ objects[2].ContentType = "text/html; charset=UTF-8"
          /\ objects[2].bucket = objects[1].bucket
          /\ objects[2].CacheControl = objects[1].CacheControl
    /\ "writeBadge" \in Called =>
          /\ ReportWritten <=>
                (cfg[1].badgeReports /\ BadgeWritten /\ ~LogHas("Failed writing badge: "))
          /\ ~LogHas("Failed writing badge: ") => BadgeWritten
          /\ \A fail \in StorageFailures :
                LET r == writeBadge(cfg[1], [build[1] EXCEPT !.BuildTriggerId = <<>>], fail)
                IN  r.objects = <<>> /\ r.err = <<"no build trigger ID">>

\* The badge was written and then the report, to the same bucket.
C24_Witness ==
    /\ Len(objects) = 2
    /\ objects[1].name = <<"1", "2", "3", ".", "s", "v", "g">>
    /\ objects[2].name = <<"1", "2", "3", ".", "h", "t", "m", "l">>
    /\ objects[1].bucket = objects[2].bucket

\* Reports are enabled and the badge was written, but closing the report
\* failed: the badge is the only object.
C24_BadgeOnlyWitness ==
    /\ "writeBadge" \in Called
    /\ cfg[1].badgeReports
    /\ BadgeWritten
    /\ Len(objects) = 1
    /\ LogHas("Failed writing badge: ")


(***************************************************************************)
(* C25: the precedence of configuration errors                             *)
(***************************************************************************)

\* The validated settings in the order in which loadConfig is claimed to
\* report them.
Precedence ==
    <<"EMAIL_PORT", "EMAIL_FROM", "EMAIL_RECIPIENTS", "EMAIL_TIME_ZONE",
      "EMAIL_BUILD_STATUSES">>

\* The place in Precedence of the first invalid setting of the environment,
\* 0 when all are valid.
FirstInvalid ==
    LET bad == {i \in 1..Len(Precedence) : Invalid(env, Precedence[i])}
    IN  IF bad = {} THEN 0 ELSE CHOOSE i \in bad : \A j \in bad : i <= j

\* The setting the error returned by loadConfig is about: the error of
\* strconv.Atoi can only come from EMAIL_PORT, every other error names its
\* setting.
Blamed ==
    IF ret[2] = "strconv.Atoi: parsing " THEN "EMAIL_PORT"
    ELSE IF ret[2] = "bad " THEN ret[3]
    ELSE IF ret[2] = "bad status " THEN ret[Len(ret)]
    ELSE "none"

\* C25: with several invalid settings loadConfig reports one error, the one
\* of the first invalid setting in the order EMAIL_PORT, EMAIL_FROM,
\* EMAIL_RECIPIENTS, EMAIL_TIME_ZONE, EMAIL_BUILD_STATUSES; the error says
\* nothing of a later setting, valid or not, and there is an error exactly
\* if some setting is invalid.
C25_Precedence ==
    calls = <<"loadConfig">> =>
       /\ ConfigError <=> FirstInvalid # 0
       /\ ConfigError =>
             /\ Blamed = Precedence[FirstInvalid]
             /\ \A i \in 1..Len(Precedence) :
                   i # FirstInvalid => Precedence[i] \notin Range(ret)
             /\ Cardinality({i \in 1..Len(ret) :
                    ret[i] \in {"strconv.Atoi: parsing ", "bad ", "bad status "}}) = 1

\* The port, the from-address, the time zone and a status are all invalid:
\* the error is the one of the port.
C25_Witness ==
    /\ ConfigError
    /\ Invalid(env, "EMAIL_PORT")
    /\ Invalid(env, "EMAIL_FROM")
    /\ Invalid(env, "EMAIL_TIME_ZONE")
    /\ Invalid(env, "EMAIL_BUILD_STATUSES")
    /\ Blamed = "EMAIL_PORT"

\* The recipients, the time zone and a status are invalid, the port and the
\* from-address are not: the error is the one of the recipients.
C25_RecipientsWitness ==
    /\ ConfigError
    /\ FirstInvalid = 3
    /\ Invalid(env, "EMAIL_TIME_ZONE")
    /\ Invalid(env, "EMAIL_BUILD_STATUSES")
    /\ Blamed = "EMAIL_RECIPIENTS"


(***************************************************************************)
(* C26: the sign of a rendered duration                                    *)
(***************************************************************************)

\* The duration written on an End line: what stands between " (" and the
\* piece that closes the line.
DurationIn(line) ==
    LET i == CHOOSE i \in 1..Len(line) : line[i] = " ("
    IN  SubSeq(line, i + 1, Len(line) - 1)

\* C26: no unit of a rendered duration is negative: the duration on the End
\* line of a sent email and of a written report has no minus sign, whatever
\* the start and finish timestamps of the build are, absent ones included.
C26_NoNegativeUnit ==
    /\ EmailSent =>
          \A i \in LinesOf("End:       ") : "-" \notin Range(DurationIn(sent[1].msg[i]))
    /\ ReportWritten =>
          \A i \in 1..Len(objects[2].content) :
             LET line == objects[2].content[i]
             IN  (line # <<>> /\ line[1] = "  <tr><td class=\"left\">End</td><td>")
                    => "-" \notin Range(DurationIn(line))


(***************************************************************************)
(* C27: checkBadge guards writeBadge and CreateBadge                       *)
(***************************************************************************)

\* The lines "Failed writing badge: ..." of the log.
BadgeFailures == {logs[i] : i \in {j \in 1..Len(logs) :
                                      logs[j] # <<>> /\ logs[j][1] = "Failed writing badge: "}}

\* C27: the statuses checkBadge accepts are those CreateBadge can render. So
\* when checkBadge returned nil for the build of the run, the build has a
\* trigger ID and CreateBadge does not fail for it, and a failure of
\* writeBadge is never "no build trigger ID" or "no badge info defined for
\* status ...": it is a failure of the storage client or of closing an
\* object.
C27_BadgeGate ==
    /\ (cfg # <<>> /\ build # <<>> /\ cfg[1].badgeBucket # <<>>
           /\ build[1].BuildTriggerId # <<>>) =>
          \A st \in DOMAIN Build_Status_name :
             LET b == [build[1] EXCEPT !.Status = st]
             IN  checkBadge(cfg[1], b) = nil <=> CreateBadgeError(b) = nil
    /\ badgeErr = nil =>
          /\ build[1].BuildTriggerId # <<>>
          /\ pc = "writeBadge" => CreateBadge(build[1]).err = nil
    /\ "writeBadge" \in Called =>
          /\ badgeErr = nil
          /\ BadgeFailures \subseteq
                {<<"Failed writing badge: ", "storage.NewClient failed">>,
                 <<"Failed writing badge: ", "storage: Writer.Close failed">>}
          /\ BadgeFailures = {} => BadgeWritten

\* checkBadge returned nil for a TIMEOUT build and writeBadge failed: the
\* storage client could not be made, and nothing was written.
C27_Witness ==
    /\ "writeBadge" \in Called
    /\ badgeErr = nil
    /\ build[1].Status = Build_TIMEOUT
    /\ BadgeFailures = {<<"Failed writing badge: ", "storage.NewClient failed">>}
    /\ objects = <<>>

\* checkBadge returned nil for an INTERNAL_ERROR build and the badge was
\* written without a failure.
C27_WrittenWitness ==
    /\ "writeBadge" \in Called
    /\ build[1].Status = Build_INTERNAL_ERROR
    /\ BadgeFailures = {}
    /\ BadgeWritten


(***************************************************************************)
(* C28: sendEmail and BuildEmail never meet an unset field                 *)
(***************************************************************************)

\* C28: every Configuration that loadConfig returned has a time zone, and
\* one for which checkEmail returned nil also has a hostname, a positive
\* port, a from-address and at least one recipient. sendEmail is called
\* for no other, so that neither it nor BuildEmail dereferences a nil
\* from-address or a nil time zone: WatchBuilds never panics.
C28_NoNilDeref ==
    /\ pc # "panic"
    /\ cfg # <<>> => cfg[1].emailTimeZone # <<>>
    /\ emailErr = nil =>
          /\ cfg[1].emailHostname # <<>>
          /\ cfg[1].emailPort > 0
          /\ cfg[1].emailFrom # <<>>
          /\ Len(cfg[1].emailRecipients) >= 1
          /\ cfg[1].emailTimeZone # <<>>
    /\ "sendEmail" \in Called => emailErr = nil

\* sendEmail ran with the default port and the default time zone, and the
\* mail left for both recipients.
C28_Witness ==
    /\ "sendEmail" \in Called
    /\ Unset(env.EMAIL_TIME_ZONE)
    /\ Unset(env.EMAIL_PORT)
    /\ cfg[1].emailPort = 25
    /\ sent # <<>>
    /\ Len(cfg[1].emailRecipients) = 2
    /\ sent[1].msg[1][1] = "From"


(***************************************************************************)
(* C29: the allow-sets hold no empty item                                  *)
(***************************************************************************)

\* C29: no allow-set of a Configuration that loadConfig returned (trigger
\* IDs, trigger names, statuses) contains the empty string, whatever the
\* value of its setting is, leading, trailing and consecutive commas
\* included; so a build with an empty trigger ID or without trigger name is
\* never accepted because its empty value is a member of a set.
C29_NoEmptyItem ==
    cfg # <<>> =>
       /\ <<>> \notin cfg[1].emailBuildTriggerIDs
       /\ <<>> \notin cfg[1].emailBuildTriggerNames
       /\ <<>> \notin cfg[1].emailBuildStatuses
       /\ (emailErr = nil /\ cfg[1].emailBuildTriggerIDs # {}
             /\ cfg[1].emailBuildTriggerNames = {})
             => build[1].BuildTriggerId # <<>>


(***************************************************************************)
(* C30: formatDuration keeps the value, up to whole seconds                *)
(***************************************************************************)

\* r read as numbers with a one-letter unit each: the sequence of its
\* <<digits, unit>> pairs, acc being the digits read since the last unit.
RECURSIVE Groups(_, _)
Groups(r, acc) ==
    IF r = <<>> THEN (IF acc = <<>> THEN <<>> ELSE << <<acc, "">> >>)
    ELSE IF IsDigit(r[1]) THEN Groups(Tail(r), Append(acc, r[1]))
    ELSE << <<acc, r[1]>> >> \o Groups(Tail(r), <<>>)

\* The seconds that one unit stands for.
UnitSeconds == [h |-> 3600, m |-> 60, s |-> 1]

\* C30: the output of formatDuration on a duration d that is not negative
\* reads [<H>h][<M>m][<S>s]: at most one number for each unit, in this
\* order, written without sign and without leading zero, with H >= 1,
\* 1 <= M <= 59 and 1 <= S <= 59 when present, except for the output "0s".
\* Hours are not turned into days, and H * 3600 + M * 60 + S is d cut to
\* whole seconds.
C30_RoundTrip ==
    pc = "done" =>
       LET g   == Groups(logs[1], <<>>)
           val(i) == DecVal(g[i][1])
           pos(i) == CHOOSE k \in 1..3 : <<"h", "m", "s">>[k] = g[i][2]
       IN  /\ g # <<>>
           /\ \A i \in 1..Len(g) :
                 /\ g[i][2] \in {"h", "m", "s"}
                 /\ g[i][1] # <<>>
                 /\ (g[i][1][1] = "0") => logs[1] = <<"0", "s">>
                 /\ g[i][2] \in {"m", "s"} => val(i) <= 59
                 /\ val(i) >= 1 \/ logs[1] = <<"0", "s">>
           /\ \A i, j \in 1..Len(g) : i < j => pos(i) < pos(j)
           /\ LET RECURSIVE Sum(_)
                  Sum(i) == IF i = 0 THEN 0 ELSE Sum(i - 1) + val(i) * UnitSeconds[g[i][2]]
              IN  Sum(Len(g)) = flags.d \div Second

\* 25h59m59.999s is written "25h59m59s": the hours stay hours and the
\* fraction of a second is cut.
C30_Witness ==
    Formatted(25 * Hour + 59 * Minute + 59 * Second + 999,
              <<"2", "5", "h", "5", "9", "m", "5", "9", "s">>)

\* 100h1m is written "100h1m".
C30_HoursWitness == Formatted(100 * Hour + Minute, <<"1", "0", "0", "h", "1", "m">>)

====
